---- MODULE Spec2Model ----
(***************************************************************************)
(* Model of the redaction engine of murrayj426/Redactor:                   *)
(* pdf_parser.redact_sensitive(text) -> (text, redaction_stats),           *)
(* and of the helpers around the audit call: utils.ai_utils.RateLimiter,   *)
(* utils.error_handling.smart_error_handler and                            *)
(* openai_auditor.TicketAuditor.audit_ticket.                              *)
(*                                                                         *)
(* A text is a string.  Positions are 1-based; a match is a pair <<s, e>>  *)
(* with s the first character of the match and e the position just after   *)
(* its last character.  Every regular expression of the source is written  *)
(* as an operator X_end(t, s): the end e of the match Python's re finds    *)
(* when it tries the pattern at position s, or 0 when there is none.       *)
(*                                                                         *)
(* Each part of the program has its own variables and its own              *)
(* specification; a specification leaves the variables of the other parts  *)
(* as they are at start-up.                                                *)
(***************************************************************************)
EXTENDS Integers, Sequences, FiniteSets, TLC

\* One call of redact_sensitive.
VARIABLES input, text, prev, redaction_stats, pc

\* Two calls of redact_sensitive on the threads of the batch worker pool:
\* the locals of each call, and the cells its closures share with it.
VARIABLES frames, cells

\* RateLimiter: self.history, time.time(), os.environ, and the call of
\* consume that is under way.
VARIABLES history, clock, environ, consume

\* smart_error_handler: _error_handler.error_history and the call of the
\* wrapper that is under way.
VARIABLES error_history, wrapper

\* TicketAuditor.audit_ticket: the call that is under way.
VARIABLES audit

redactVars == <<input, text, prev, redaction_stats, pc>>

poolVars == <<frames, cells>>

limiterVars == <<history, clock, environ, consume>>

handlerVars == <<error_history, wrapper>>

auditVars == <<audit>>

vars == <<redactVars, poolVars, limiterVars, handlerVars, auditVars>>

\* Each part before anything has called it.
RedactorAtRest ==
    input = "" /\ text = "" /\ prev = "" /\ redaction_stats = <<>> /\ pc = "idle"

PoolAtRest == frames = <<>> /\ cells = <<>>

LimiterAtRest ==
    history = <<>> /\ clock = 0 /\ environ = <<>> /\ consume = [pc |-> "idle"]

HandlerAtRest == error_history = <<>> /\ wrapper = [pc |-> "idle"]

AuditAtRest == audit = [pc |-> "idle"]

-----------------------------------------------------------------------------
(* Characters and character classes of Python's re, on the ASCII subset.   *)

At(t, i) == IF i >= 1 /\ i <= Len(t) THEN SubSeq(t, i, i) ELSE ""

Slice(t, s, e) == IF s < e THEN SubSeq(t, s, e - 1) ELSE ""

UpperLetters == "ABCDEFGHIJKLMNOPQRSTUVWXYZ"

LowerLetters == "abcdefghijklmnopqrstuvwxyz"

Upper == {At(UpperLetters, i) : i \in 1..Len(UpperLetters)}

Lower == {At(LowerLetters, i) : i \in 1..Len(LowerLetters)}

Digit == {"0", "1", "2", "3", "4", "5", "6", "7", "8", "9"}

Space == {" ", "\n", "\t", "\r"}

WordChar == Upper \cup Lower \cup Digit \cup {"_"}

HexDigit == Digit \cup {"a", "b", "c", "d", "e", "f", "A", "B", "C", "D", "E", "F"}

LowerOf == [c \in Upper |-> At(LowerLetters, CHOOSE i \in 1..Len(UpperLetters) : At(UpperLetters, i) = c)]

\* str.lower(), by halves.
RECURSIVE str_lower(_)
str_lower(t) ==
    IF Len(t) <= 1 THEN (IF t \in Upper THEN LowerOf[t] ELSE t)
    ELSE LET h == Len(t) \div 2
         IN str_lower(SubSeq(t, 1, h)) \o str_lower(SubSeq(t, h + 1, Len(t)))

DigitValue == [c \in Digit |-> CHOOSE n \in 0..9 : At("0123456789", n + 1) = c]

RECURSIVE int(_)
int(t) ==
    IF t = "" THEN 0
    ELSE 10 * int(Slice(t, 1, Len(t))) + DigitValue[At(t, Len(t))]

\* Number of consecutive characters of class S starting at position i.
RECURSIVE CountRun(_, _, _)
CountRun(t, i, S) ==
    IF At(t, i) \in S THEN 1 + CountRun(t, i + 1, S) ELSE 0

\* First position >= i whose character is not in S (Len(t) + 1 at the end).
SkipRun(t, i, S) == i + CountRun(t, i, S)

\* The literal lit stands at position s.
Lit(t, s, lit) ==
    s >= 1 /\ s + Len(lit) - 1 <= Len(t) /\ SubSeq(t, s, s + Len(lit) - 1) = lit

\* \b : a word boundary between positions i-1 and i.
WordBoundary(t, i) == (At(t, i - 1) \in WordChar) # (At(t, i) \in WordChar)

startswith(t, prefix) == Lit(t, 1, prefix)

endswith(t, suffix) == Len(suffix) <= Len(t) /\ Lit(t, Len(t) - Len(suffix) + 1, suffix)

isdigit(t) == t # "" /\ \A i \in 1..Len(t) : At(t, i) \in Digit

Contains(t, sub) == \E s \in 1..(Len(t) - Len(sub) + 1) : Lit(t, s, sub)

-----------------------------------------------------------------------------
(* re.findall / re.sub: leftmost, non-overlapping matches, left to right.  *)
(* ends[s] is the end of the match tried at s (0: none).  No pattern of     *)
(* the source matches the empty string.                                     *)

Min(S) == CHOOSE x \in S : \A y \in S : x <= y

Max(S) == CHOOSE x \in S : \A y \in S : y <= x

\* Matches taken at every start, overlapping ones included.
RECURSIVE finditer_overlapping(_, _)
finditer_overlapping(ends, from) ==
    LET starts == {s \in from..Len(ends) : ends[s] # 0}
    IN IF starts = {} THEN <<>>
       ELSE LET s == Min(starts) IN <<<<s, ends[s]>>>> \o finditer_overlapping(ends, s + 1)

RECURSIVE finditer(_, _)
finditer(ends, from) ==
    LET starts == {s \in from..Len(ends) : ends[s] # 0}
    IN IF starts = {} THEN <<>>
       ELSE LET s == Min(starts) IN <<<<s, ends[s]>>>> \o finditer(ends, ends[s])

\* The text with match k replaced by repl[k].
RECURSIVE Rebuild(_, _, _, _, _)
Rebuild(t, ms, repl, k, from) ==
    IF k > Len(ms) THEN Slice(t, from, Len(t) + 1)
    ELSE Slice(t, from, ms[k][1]) \o repl[k] \o Rebuild(t, ms, repl, k + 1, ms[k][2])

sub(t, ms, repl) == Rebuild(t, ms, repl, 1, 1)

group0(t, m) == Slice(t, m[1], m[2])

-----------------------------------------------------------------------------
(* REGEX_PATTERNS and the inline patterns of redact_sensitive.             *)

\* (?:\d{1,3}\.) tried at s: the position after the dot, or 0.
OctetDot(t, s) ==
    LET n == CountRun(t, s, Digit)
    IN IF s # 0 /\ n >= 1 /\ n <= 3 /\ At(t, s + n) = "." THEN s + n + 1 ELSE 0

\* \b(?:\d{1,3}\.){3}\d{1,3}\b
ip_addresses_end(t, s) ==
    LET p == OctetDot(t, OctetDot(t, OctetDot(t, s)))
        n == CountRun(t, p, Digit)
    IN IF WordBoundary(t, s) /\ p # 0 /\ n >= 1 /\ n <= 3 /\ At(t, p + n) \notin WordChar
       THEN p + n ELSE 0

\* (?:[0-9A-Fa-f]{2}[:-]){5}[0-9A-Fa-f]{2}
mac_addresses_end(t, s) ==
    IF /\ \A k \in 0..5 : At(t, s + 3 * k) \in HexDigit /\ At(t, s + 3 * k + 1) \in HexDigit
       /\ \A k \in 0..4 : At(t, s + 3 * k + 2) \in {":", "-"}
    THEN s + 17 ELSE 0

PhoneSep == Space \cup {"-", "."}

OptSep(t, s) == IF At(t, s) \in PhoneSep THEN s + 1 ELSE s

\* \(?[0-9]{3}\)?[-.\s]?[0-9]{3}[-.\s]?[0-9]{4}\b tried at s.
PhoneBodyEnd(t, s) ==
    LET a == IF At(t, s) = "(" THEN s + 1 ELSE s
        b == IF At(t, a + 3) = ")" THEN a + 4 ELSE a + 3
        c == OptSep(t, b)
        d == OptSep(t, c + 3)
    IN IF /\ \A k \in 0..2 : At(t, a + k) \in Digit
          /\ \A k \in 0..2 : At(t, c + k) \in Digit
          /\ \A k \in 0..3 : At(t, d + k) \in Digit
          /\ At(t, d + 4) \notin WordChar
       THEN d + 4 ELSE 0

\* (?:\+?1[-.\s]?)?\(?[0-9]{3}\)?[-.\s]?[0-9]{3}[-.\s]?[0-9]{4}\b
\* The optional country prefix is tried first, then the body alone.
phone_pattern_end(t, s) ==
    LET one == IF At(t, s) = "+" THEN s + 1 ELSE s
        withPrefix == IF At(t, one) = "1" THEN PhoneBodyEnd(t, OptSep(t, one + 1)) ELSE 0
    IN IF withPrefix # 0 THEN withPrefix ELSE PhoneBodyEnd(t, s)

EmailLocal == Upper \cup Lower \cup Digit \cup {".", "_", "%", "+", "-"}

EmailDomain == Upper \cup Lower \cup Digit \cup {".", "-"}

\* [A-Z|a-z] : the class holds the bar as well.
EmailTld == Upper \cup Lower \cup {"|"}

\* \.[A-Z|a-z]{2,}\b with the dot at q: the greedy end, backing off to 2.
TldEnd(t, q) ==
    LET m == CountRun(t, q + 1, EmailTld)
        ok == {k \in 2..m : WordBoundary(t, q + 1 + k)}
    IN IF At(t, q) = "." /\ ok # {} THEN q + 1 + Max(ok) ELSE 0

\* \b[A-Za-z0-9._%+-]+@[A-Za-z0-9.-]+\.[A-Z|a-z]{2,}\b
\* The domain is greedy: the last dot of the domain run that a TLD follows.
email_addresses_end(t, s) ==
    LET at == SkipRun(t, s, EmailLocal)
        stop == SkipRun(t, at + 1, EmailDomain)
        dots == {q \in (at + 2)..(stop - 1) : TldEnd(t, q) # 0}
    IN IF WordBoundary(t, s) /\ at > s /\ At(t, at) = "@" /\ dots # {}
       THEN TldEnd(t, Max(dots)) ELSE 0

\* EVE\d{8}
employee_ids_end(t, s) ==
    IF Lit(t, s, "EVE") /\ \A k \in 3..10 : At(t, s + k) \in Digit THEN s + 11 ELSE 0

\* IMEI[#\s]*\d+
imei_numbers_end(t, s) ==
    LET d == SkipRun(t, s + 4, Space \cup {"#"})
        e == SkipRun(t, d, Digit)
    IN IF Lit(t, s, "IMEI") /\ e > d THEN e ELSE 0

\* Account\s+\d{8,}(-\d+)?
account_numbers_end(t, s) ==
    LET d == SkipRun(t, s + 7, Space)
        e == SkipRun(t, d, Digit)
        f == SkipRun(t, e + 1, Digit)
    IN IF Lit(t, s, "Account") /\ d > s + 7 /\ e - d >= 8
       THEN (IF At(t, e) = "-" /\ f > e + 1 THEN f ELSE e) ELSE 0

NonSpaceEnd(t, s) ==
    CHOOSE e \in s..(Len(t) + 1) :
        /\ \A i \in s..(e - 1) : At(t, i) \notin Space
        /\ (e = Len(t) + 1 \/ At(t, e) \in Space)

\* https?://\S+
urls_end(t, s) ==
    LET p == IF At(t, s + 4) = "s" THEN s + 5 ELSE s + 4
        e == NonSpaceEnd(t, p + 3)
    IN IF Lit(t, s, "http") /\ Lit(t, p, "://") /\ e > p + 3 THEN e ELSE 0

LineEnd(t, s) ==
    CHOOSE e \in s..(Len(t) + 1) :
        /\ \A i \in s..(e - 1) : At(t, i) # "\n"
        /\ (e = Len(t) + 1 \/ At(t, e) = "\n")

\* (Run [Bb]y\s*:\s*) : the end of group 1 for the label tried at s, or 0.
\* The \s* after the colon is greedy and gives characters back only when it
\* ran to the end of the text and [^\n]+ found nothing to match.
run_by_group1_end(t, s) ==
    LET colon == SkipRun(t, s + 6, Space)
        w == SkipRun(t, colon + 1, Space)
        back == {j \in (colon + 1)..(w - 1) : At(t, j) # "\n"}
    IN IF ~(Lit(t, s, "Run ") /\ At(t, s + 4) \in {"B", "b"} /\ At(t, s + 5) = "y"
            /\ At(t, colon) = ":")
       THEN 0
       ELSE IF w <= Len(t) THEN w
       ELSE IF back # {} THEN Max(back)
       ELSE 0

\* (Run [Bb]y\s*:\s*)[^\n]+
run_by_pattern_end(t, s) ==
    LET g == run_by_group1_end(t, s)
    IN IF g = 0 THEN 0 ELSE LineEnd(t, g)

\* The names pattern with [A-Za-z] where the source has [a-z].
names_end_mixed_case(t, s) ==
    LET w == SkipRun(t, s + 1, Lower \cup Upper)
        u == SkipRun(t, w, Space)
        e == SkipRun(t, u + 1, Lower \cup Upper)
    IN IF /\ WordBoundary(t, s) /\ At(t, s) \in Upper /\ w > s + 1
          /\ u > w /\ At(t, u) \in Upper /\ e > u + 1 /\ At(t, e) \notin WordChar
       THEN e ELSE 0

\* \b([A-Z][a-z]+)\s+([A-Z])[a-z]+\b
names_end(t, s) ==
    LET w == SkipRun(t, s + 1, Lower)
        u == SkipRun(t, w, Space)
        e == SkipRun(t, u + 1, Lower)
    IN IF /\ WordBoundary(t, s) /\ At(t, s) \in Upper /\ w > s + 1
          /\ u > w /\ At(t, u) \in Upper /\ e > u + 1 /\ At(t, e) \notin WordChar
       THEN e ELSE 0

\* match.group(1) of the names pattern.
names_group1(t, m) == Slice(t, m[1], SkipRun(t, m[1] + 1, Lower))

\* split()[1] that splits on the blank only: no second word when the two
\* words of the match are apart by anything else.
split_1_blank_only(full) ==
    LET w == SkipRun(full, 1, Lower \cup Upper)
    IN IF At(full, w) = " " /\ At(full, w + 1) \notin Space
       THEN Slice(full, w + 1, Len(full) + 1) ELSE ""

\* match.group(0).split()[1] : the second whitespace-separated word.
split_1(full) ==
    LET w == SkipRun(full, 1, Lower \cup Upper)
        u == SkipRun(full, w, Space)
    IN Slice(full, u, Len(full) + 1)

\* The IndexError of match.group(0).split()[1] and of second_word[0]: raised
\* when the match has no second word.
name_replacer_raises(full_match) == split_1(full_match) = ""

Ends(End(_, _), t) == [s \in 1..Len(t) |-> End(t, s)]

findall(End(_, _), t) == finditer(Ends(End, t), 1)

-----------------------------------------------------------------------------
(* ServiceNow field formatting: a line break before a field label.         *)

servicenow_fields ==
    << "Impact:", "Urgency:", "Priority:", "Responsible party:", "Assignment group:",
      "Customer Assignment Group:", "Assigned to:", "Opened by:", "Resolved by:",
      "Company:", "Location:", "Configuration item:", "Service Offering:",
      "Category:", "Subcategory:", "Application:", "Business service:",
      "Service offering:", "Contact type:", "Caller name:", "Caller email:",
      "Caller phone:", "Caller:", "Vendor:", "Carrier:", "Follow up by:",
      "Event date:", "Primary agreement:", "Pending reason:", "Handoff:",
      "Last Reoccurrence:", "Last Touched:", "Sync Ticket with Customer:",
      "Service Restored:", "Alert Cleared:", "Short description:", "Notes:",
      "Watch list:", "Time worked:", "Customer watch list:", "Current status:",
      "Next steps:", "Additional comments:", "Close code:", "Cause code:",
      "Close notes:", "Root cause:" >>


sentence_words ==
    { "high", "medium", "low", "critical", "the", "and", "or", "but", "with", "from", "to" }

\* The places a field pattern (\w+)\s+(label) can match: <<s, w, u>> with a
\* run of word characters s..w-1, whitespace w..u-1 and a label tried at u.
\* Only the start of a run is listed: the search is leftmost, and it resumes
\* after the colon of a label, never inside a run.
RunStarts(t) ==
    {i \in 1..Len(t) : At(t, i) \in WordChar /\ At(t, i - 1) \notin WordChar}

RECURSIVE GapsFrom(_, _)
GapsFrom(t, S) ==
    IF S = {} THEN <<>>
    ELSE LET i == Min(S)
             w == SkipRun(t, i, WordChar)
             u == SkipRun(t, w, Space)
         IN (IF u > w /\ u <= Len(t) THEN <<<<i, w, u>>>> ELSE <<>>) \o GapsFrom(t, S \ {i})

WordGaps(t) == GapsFrom(t, RunStarts(t))

\* re.finditer of (\w+)\s+(field): the gaps the label follows.
RECURSIVE FieldMatches(_, _, _, _)
FieldMatches(t, gaps, field, k) ==
    IF k > Len(gaps) THEN <<>>
    ELSE (IF Lit(t, gaps[k][3], field) THEN <<gaps[k]>> ELSE <<>>)
         \o FieldMatches(t, gaps, field, k + 1)

field_replacer(t, g, field) ==
    LET preceding_word == Slice(t, g[1], g[2])
    IN IF str_lower(preceding_word) \in sentence_words
       THEN preceding_word \o "\n" \o field
       ELSE Slice(t, g[1], g[3] + Len(field))

\* text = re.sub(pattern, field_replacer, text) for one field.
SubField(t, gaps, field) ==
    LET gs == FieldMatches(t, gaps, field, 1)
    IN sub(t, [k \in 1..Len(gs) |-> <<gs[k][1], gs[k][3] + Len(field)>>],
              [k \in 1..Len(gs) |-> field_replacer(t, gs[k], field)])

\* for field in servicenow_fields: ...
RECURSIVE ApplyFields(_, _, _)
ApplyFields(t, gaps, k) ==
    IF k > Len(servicenow_fields) THEN t
    ELSE LET t2 == SubField(t, gaps, servicenow_fields[k])
         IN IF t2 = t THEN ApplyFields(t, gaps, k + 1)
            ELSE ApplyFields(t2, WordGaps(t2), k + 1)

Levels == <<"High", "Medium", "Low", "Critical">>

\* (High|Medium|Low|Critical) tried at s: its end, or 0.
LevelEnd(t, s) ==
    LET hit == {k \in 1..Len(Levels) : Lit(t, s, Levels[k])}
    IN IF hit = {} THEN 0 ELSE s + Len(Levels[CHOOSE k \in hit : TRUE])

\* [A-Z][a-z]+ [A-Z][a-z]+ tried at s, whitespace following: its end, or 0.
TwoWordsEnd(t, s) ==
    LET w == SkipRun(t, s + 1, Lower)
        e == SkipRun(t, w + 2, Lower)
    IN IF /\ At(t, s) \in Upper /\ w > s + 1 /\ At(t, w) = " "
          /\ At(t, w + 1) \in Upper /\ e > w + 2
       THEN e ELSE 0

FirstColon(t, s) ==
    CHOOSE c \in s..(Len(t) + 1) :
        /\ \A i \in s..(c - 1) : At(t, i) # ":"
        /\ (c = Len(t) + 1 \/ At(t, c) = ":")

\* value_field_patterns: the label of pattern k ...
value_field_labels ==
    << "Responsible party:", "Urgency:", "Assignment group:",
       "Customer Assignment Group:", "Service Offering:", "Category:" >>

\* ... and the end of its group 1 when it is tried at s (0: no group 1 here).
value_field_group1_end(t, s, k) ==
    CASE k = 1 -> LevelEnd(t, s)
      [] k = 2 -> IF Lit(t, s, "Presidio") THEN s + 8
                  ELSE IF Lit(t, s, "Delaware North")
                  THEN LET c == FirstColon(t, s + 14)
                       IN IF c - 8 >= s + 14 /\ At(t, c - 8) \in Space THEN c - 8 ELSE 0
                  ELSE 0
      [] k = 3 -> LET a == SkipRun(t, SkipRun(t, s, Digit), Space)
                      b == SkipRun(t, a + 1, Space)
                  IN IF At(t, s) \in Digit /\ At(t, a) = "-" THEN LevelEnd(t, b) ELSE 0
      [] k = 4 -> IF Lit(t, s, "MSC Network Engineer") THEN s + 20 ELSE TwoWordsEnd(t, s)
      [] k = 5 -> IF Lit(t, s, "true") THEN s + 4
                  ELSE IF Lit(t, s, "false") THEN s + 5 ELSE 0
      [] k = 6 -> IF Lit(t, s, "Network Services") THEN s + 16 ELSE TwoWordsEnd(t, s)

\* The whole value pattern k tried at s.
value_field_end(t, s, k) ==
    LET g == value_field_group1_end(t, s, k)
        u == SkipRun(t, g, Space)
    IN IF g # 0 /\ u > g /\ Lit(t, u, value_field_labels[k])
       THEN u + Len(value_field_labels[k]) ELSE 0

\* re.sub(pattern, r'\1\n\2', text) for value pattern k.
SubValueField(t, k) ==
    LET ms == finditer([s \in 1..Len(t) |-> value_field_end(t, s, k)], 1)
    IN sub(t, ms, [j \in 1..Len(ms) |->
                     Slice(t, ms[j][1], value_field_group1_end(t, ms[j][1], k))
                     \o "\n" \o value_field_labels[k]])

RECURSIVE ApplyValueFields(_, _)
ApplyValueFields(t, k) ==
    IF k > Len(value_field_labels) THEN t
    ELSE ApplyValueFields(SubValueField(t, k), k + 1)

format_fields(t) == ApplyValueFields(ApplyFields(t, WordGaps(t), 1), 1)

-----------------------------------------------------------------------------
(* The replacement callbacks of redact_sensitive.                          *)

IP_TOKEN == "[REDACTED IP]"

MAC_TOKEN == "[REDACTED MAC]"

PHONE_TOKEN == "[REDACTED PHONE]"

EMAIL_TOKEN == "[REDACTED EMAIL]"

EMPLOYEE_TOKEN == "[REDACTED EMPLOYEE ID]"

IMEI_TOKEN == "IMEI#[REDACTED]"

ACCOUNT_TOKEN == "Account [REDACTED]"

URL_TOKEN == "[REDACTED URL]"

RUN_BY_TOKEN == "[REDACTED]"

\* ip.split('.')[k] for k = 0, 1 of an IP-shaped match.
ip_part0(ip) == Slice(ip, 1, SkipRun(ip, 1, Digit))

ip_part1(ip) ==
    LET a == SkipRun(ip, 1, Digit) + 1
    IN Slice(ip, a, SkipRun(ip, a, Digit))

\* ip_is_internal without the bound on the second octet of 172.x.
ip_is_internal_any_172(first_octet, second_octet) ==
    \/ first_octet = 10
    \/ first_octet = 172
    \/ (first_octet = 192 /\ second_octet = 168)

\* The private ranges ip_replacer keeps.
ip_is_internal(first_octet, second_octet) ==
    \/ first_octet = 10
    \/ (first_octet = 172 /\ 16 <= second_octet /\ second_octet <= 31)
    \/ (first_octet = 192 /\ second_octet = 168)

\* The ValueError of int(parts[k]), raised for a part that is not a run of
\* digits; ip_replacer catches it and goes on to redact.
int_raises(part) == part = "" \/ ~isdigit(part)

ip_replacer(ip) ==
    IF int_raises(ip_part0(ip)) \/ int_raises(ip_part1(ip)) THEN IP_TOKEN
    ELSE IF ip_is_internal(int(ip_part0(ip)), int(ip_part1(ip))) THEN ip ELSE IP_TOKEN

\* The test of the list comprehension that counts actual_ip_redactions.
ip_is_counted(ip) ==
    ~(startswith(ip, "10.") \/ startswith(ip, "172.") \/ startswith(ip, "192.168."))

PhoneLookback == 15

\* phone_replacer looking only at the 5 characters in front of the match.
phone_replacer_short_lookback(t, m) ==
    LET full_match == group0(t, m)
        preceding_text == str_lower(Slice(t, IF m[1] > 5 THEN m[1] - 5 ELSE 1, m[1]))
        keep == /\ m[1] > 1
                /\ \/ (endswith(preceding_text, "6-") /\ Len(full_match) = 10
                       /\ isdigit(full_match))
                   \/ Contains(preceding_text, "#")
    IN IF keep THEN [out |-> full_match, counted |-> 0]
               ELSE [out |-> PHONE_TOKEN, counted |-> 1]

\* phone_replacer with the counter incremented before the exemptions.
phone_replacer_counts_kept(t, m) ==
    LET full_match == group0(t, m)
        preceding_text ==
            str_lower(Slice(t, IF m[1] > PhoneLookback THEN m[1] - PhoneLookback ELSE 1, m[1]))
        keep == /\ m[1] > 1
                /\ \/ (endswith(preceding_text, "6-") /\ Len(full_match) = 10
                       /\ isdigit(full_match))
                   \/ Contains(preceding_text, "#")
    IN [out |-> IF keep THEN full_match ELSE PHONE_TOKEN, counted |-> 1]

\* phone_replacer: the replacement, and whether actual_phone_redactions grows.
phone_replacer(t, m) ==
    LET full_match == group0(t, m)
        start_pos == m[1] - 1
        preceding_text ==
            str_lower(Slice(t, (IF start_pos - PhoneLookback > 0
                                THEN start_pos - PhoneLookback ELSE 0) + 1, m[1]))
        keep == /\ start_pos > 0
                /\ \/ (endswith(preceding_text, "6-") /\ Len(full_match) = 10
                       /\ isdigit(full_match))
                   \/ Contains(preceding_text, "#")
    IN IF keep THEN [out |-> full_match, counted |-> 0]
               ELSE [out |-> PHONE_TOKEN, counted |-> 1]

business_terms ==
    { "niagara", "delaware", "eastern", "western", "northern", "southern", "central",
      "melbourne", "presidio", "docklands", "tower", "wheeling", "downs", "gaming",
      "falls", "stadium", "island", "hotel", "casino", "racetrack", "banquet",
      "buffet", "showroom", "employee", "lounge", "giftshop", "sportsbook", "human",
      "resources", "pointe", "restaurant", "datacenter", "promotions", "spare",
      "production", "security", "service", "management", "client", "customer",
      "activity", "change", "incident", "request", "access", "event", "status",
      "pending", "hold", "time", "integration", "monitoring", "network", "device",
      "system", "server", "router", "switch", "firewall", "appliance",
      "configuration", "automation", "logic", "checkpoint", "verizon", "logicmonitor",
      "center", "unified", "communications", "manager", "vmware", "vcenter",
      "instance", "compute", "storage", "gewig", "gewiggafw", "gewigga", "gewigoamt",
      "gewig16nv", "gewig16dhcp", "gewigfpclus", "gewigagysws", "gewig16v1ws",
      "gewig19clus", "gewiggavrapp", "gewig19fp", "meraki", "cisco", "catalyst",
      "proliant", "nimble", "mr32", "ws-c3560x", "ws-c2960", "bl460c", "gen9", "esxi",
      "windows", "linux", "ubuntu", "redhat", "centos", "microsoft", "intel", "amd",
      "hp", "dell", "itrak", "everi", "floor", "monitor", "unavailable", "offline",
      "online", "companies", "inc", "corp", "ltd", "llc", "north", "services",
      "offering", "category", "subcategory", "carrier", "vendor", "circuit",
      "wireless", "comcast", "segra", "start", "metro", "eline", "etta", "lopp",
      "cfw", "daylight", "standard", "mountain", "pacific", "atlantic", "worked",
      "notes", "steps", "team", "group", "resolution", "escalation", "priority",
      "impact", "urgency", "assignment", "billing", "reporting", "entitlement",
      "date", "run", "opened", "closed", "updated", "created", "resolved", "assigned",
      "caller", "contact", "description", "summary", "comments", "worknotes",
      "private", "public", "minutes", "seconds", "hours", "days", "weeks", "months",
      "years", "elapsed", "percentage", "achieved", "cancelled", "breached",
      "threshold", "alert", "level", "progress", "new", "draft", "review", "approved",
      "rejected", "processing", "complete", "failed", "success", "waiting", "active",
      "inactive", "enabled", "disabled", "available", "maintenance", "operational",
      "critical", "high", "medium", "low", "informational", "warning", "error",
      "debug", "trace", "verbose", "quiet", "silent", "resource", "unity", "ethernet",
      "fabric", "virtual", "backup", "restore", "patch", "managed", "collaboration",
      "engineer", "hypervisor", "vmotion", "drs", "ha", "cluster", "domain",
      "controller", "dhcp", "dns", "ntp", "snmp", "ssh", "rdp", "vnc", "console",
      "terminal", "shell", "bash", "powershell", "cmd", "registry", "daemon",
      "process", "thread", "memory", "cpu", "disk", "interface", "port", "protocol",
      "tcp", "udp", "icmp", "http", "https", "ftp", "sftp", "smtp", "pop3", "imap",
      "notification", "baseline", "metric", "dashboard", "report", "analytics",
      "statistics", "performance", "utilization", "capacity", "availability",
      "reliability", "scalability", "compliance", "audit", "log", "problem",
      "release", "deployment", "rollback", "upgrade", "downgrade", "ticket", "number",
      "state", "reason", "follow", "business", "location", "handoff", "query",
      "related", "parent", "primary", "secondary", "reference" }


compound_terms ==
    { "delaware north", "niagara falls", "eastern daylight", "melbourne docklands",
      "network services", "security device", "service offering", "configuration item",
      "time worked", "activity task", "incident details", "work notes",
      "monitoring automation", "integration user", "escalation group",
      "wheeling downs", "gaming location", "hotel casino", "casino racetrack",
      "system server", "device management", "resource offline", "vmware center",
      "microsoft windows", "network circuit", "ip address", "mac address",
      "backup services", "managed services", "data center", "patch management",
      "collaboration engineer", "security engineer", "network engineer",
      "systems engineer", "run date", "run by", "opened by", "assigned to",
      "contact type", "ticket integration", "business service", "service restored",
      "additional comments", "short description", "current status", "next steps",
      "incident number", "customer ticket", "assignment group", "responsible party",
      "network management", "primary agreement", "in progress", "on hold",
      "pending client", "pending vendor", "pending approval", "work in",
      "under review", "awaiting approval", "pending closure", "pending customer",
      "pending internal", "high priority", "low priority", "medium priority",
      "critical priority", "service degraded", "in review", "work progress",
      "solution provided", "report type", "alert count", "query condition",
      "related list", "problem ticket", "parent incident", "business impact",
      "priority impact", "secondary contact", "reference number", "last resolved",
      "last updated", "last touched", "access point", "network gear", "ip switch",
      "network switch", "ip firewall", "esx server", "vmware esxi", "windows server",
      "linux server", "blade server", "storage device", "backup device",
      "monitoring device", "security appliance", "network appliance",
      "presidio appliance", "managed device", "compute device", "virtual machine",
      "virtual server", "virtual appliance", "compute resource", "storage resource",
      "network resource", "backup resource", "security resource", "gaming hotel",
      "hotel guest", "production network", "guest network", "employee lounge",
      "human resources", "sports book", "gift shop", "pointe restaurant",
      "banquet comcast", "spare production", "data protection", "carrier case",
      "dispatch services", "cloud foundations", "select tier", "priority email",
      "quarterly true", "shared document", "meraki portal", "live tracking",
      "high touch", "remote access", "time resolve", "escalation via",
      "logicmonitor monitoring", "allied servicedesk", "cattools monitoring",
      "high wire", "redundant appliance", "snmp configure", "logicmonitor backups" }

tech_abbreviations == <<"vm", "srv", "app", "db", "fw", "sw", "rtr", "ws", "inc", "gewig">>

\* The string x from position i on consists of a run of class A (at least
\* minA), then a run of class B (at least minB), and nothing else.
TwoRuns(x, i, A, minA, B, minB) ==
    LET a == SkipRun(x, i, A)
        b == SkipRun(x, a, B)
    IN a - i >= minA /\ b - a >= minB /\ b = Len(x) + 1

\* ^A+B+A*B*$ for disjoint classes A and B.
FourRuns(x, A, B) ==
    LET a == SkipRun(x, 1, A)
        b == SkipRun(x, a, B)
        c == SkipRun(x, b, A)
        d == SkipRun(x, c, B)
    IN a > 1 /\ b > a /\ d = Len(x) + 1

DomainSuffixes == <<".ad.dncinc.com", ".prod.presidiosecure.com">>

\* re.match(pattern, x) for pattern k of technical_patterns, the text x
\* holding no line break at its end.
technical_pattern(x, k) ==
    CASE k = 1 -> /\ CountRun(x, 1, Upper) >= 3
                  /\ Len(x) >= 4
                  /\ SkipRun(x, 1, Upper \cup Digit) = Len(x) + 1
      [] k = 2 -> FourRuns(x, Lower, Digit)
      [] k = 3 -> FourRuns(x, Upper, Digit)
      [] k = 4 -> /\ \E j \in 1..Len(DomainSuffixes) : endswith(x, DomainSuffixes[j])
                  /\ ~Contains(x, "\n")
      [] k = 5 -> TwoRuns(x, 1, Upper, 2, Digit, 2)
      [] k = 6 -> /\ startswith(x, "Q2") /\ Len(x) >= 3
                  /\ SkipRun(x, 3, Upper \cup Digit \cup {"-"}) = Len(x) + 1
      [] k = 7 -> /\ Len(x) = 9 /\ CountRun(x, 1, Upper) = 3
                  /\ CountRun(x, 4, Digit) = 6

business_endings == <<"ing", "tion", "ment", "ness", "ity", "ics", "ogy">>

\* The five tests of name_replacer, in the order the code makes them.
in_business_terms(first_word, second_word) ==
    str_lower(first_word) \in business_terms \/ str_lower(second_word) \in business_terms

\* in_compound_terms with the table never consulted.
in_compound_terms_skipped(full_match) == FALSE

in_compound_terms(full_match) == str_lower(full_match) \in compound_terms

is_technical(full_match) ==
    \/ \E i \in 1..Len(full_match) : At(full_match, i) \in Digit
    \/ Contains(full_match, "_")
    \/ Contains(full_match, ".")
    \/ \E j \in 1..Len(tech_abbreviations) :
           Contains(str_lower(full_match), tech_abbreviations[j])
    \/ \E k \in 1..7 : technical_pattern(full_match, k)

islower(x) ==
    /\ \E i \in 1..Len(x) : At(x, i) \in Lower
    /\ \A i \in 1..Len(x) : At(x, i) \notin Upper

is_proper_case(first_word, second_word) ==
    /\ Len(first_word) >= 2 /\ Len(second_word) >= 2
    /\ At(first_word, 1) \in Upper /\ islower(Slice(first_word, 2, Len(first_word) + 1))
    /\ At(second_word, 1) \in Upper /\ islower(Slice(second_word, 2, Len(second_word) + 1))

has_business_ending(second_word) ==
    \E j \in 1..Len(business_endings) : endswith(str_lower(second_word), business_endings[j])

\* name_replacer without "name_count += 1".
name_replacer_uncounted(full_match, first_word) ==
    LET second_word == split_1(full_match)
        keep == [out |-> full_match, counted |-> 0]
    IN IF \/ in_business_terms(first_word, second_word)
          \/ in_compound_terms(full_match)
          \/ is_technical(full_match)
          \/ ~is_proper_case(first_word, second_word)
          \/ has_business_ending(second_word)
       THEN keep
       ELSE [out |-> first_word \o " " \o At(second_word, 1) \o ".", counted |-> 0]

\* name_replacer without the business_endings filter.
name_replacer_no_endings(full_match, first_word) ==
    LET second_word == split_1(full_match)
        keep == [out |-> full_match, counted |-> 0]
    IN IF \/ in_business_terms(first_word, second_word)
          \/ in_compound_terms(full_match)
          \/ is_technical(full_match)
          \/ ~is_proper_case(first_word, second_word)
       THEN keep
       ELSE [out |-> first_word \o " " \o At(second_word, 1) \o ".", counted |-> 1]

\* name_replacer: the replacement, and whether name_count grows.
name_replacer(full_match, first_word) ==
    LET second_word == split_1(full_match)
        keep == [out |-> full_match, counted |-> 0]
    IN IF in_business_terms(first_word, second_word) THEN keep
       ELSE IF in_compound_terms(full_match) THEN keep
       ELSE IF is_technical(full_match) THEN keep
       ELSE IF is_proper_case(first_word, second_word)
       THEN (IF has_business_ending(second_word) THEN keep
             ELSE [out |-> first_word \o " " \o At(second_word, 1) \o ".", counted |-> 1])
       ELSE keep

RECURSIVE SumCounted(_, _)
SumCounted(rs, k) == IF k > Len(rs) THEN 0 ELSE rs[k].counted + SumCounted(rs, k + 1)

-----------------------------------------------------------------------------
(* The input texts.                                                        *)

\* Whole texts: the examples of the specification and of the test files.
Examples ==
    { "",
      "Engineer: John Smith worked on this",
      "Caller: Caleb Franklin",
      "Assigned to: Kaushal Smith",
      "Category: Security Device Management",
      "Time Worked: 10 Minutes",
      "State: Pending Client",
      "Impact: 1 - High Responsible party: Presidio",
      "Run By: Jeremy Murray 08-03-2025",
      "Server at 10.0.0.5 and 8.8.8.8",
      "Case #6-555-123-4567 was opened",
      "Phone: 555-123-4567",
      "Ticket 555-123-4567",
      "reference 555-123-4567",
      "Run by : x",
      "Run By:\nJohn Smith",
      "Run By: Jeremy Murray",
      "Account 1234567890",
      "IMEI 123456789012345",
      "IMEI#123456789012345",
      "Kelly Account 12345678",
      "Gift\nShop",
      "Gift  Shop",
      "Time Worked On",
      "John Smith Kelly Jones",
      "John Smith Lee",
      "Gift Shop Lee",
      "Ronald McDonald",
      "http://8.8.8.8/x",
      "http://x.io/?u=a@b.co" }

\* The pieces the other texts are put together from.
Fragments ==
    << "John Smith ", "Gift Shop ", "Kelly Manning ", "Andrew Swanson Security Device ",
       "Dana\nLee ",
       "8.8.8.8 ", "10.1.2.3 010.1.1.1 ", "172.15.9.9 172.16.0.1 ", "172.31.0.2 172.32.0.1 ",
       "192.168.1.1 192.169.1.1 ",
       "555-123-4567 ", "5551234567 ", "+1 (555) 123-4567 ",
       "#", "6-", "Ticket ", "#a@b.co ",
       "EVE12345678 ", "IMEI#123456789012345 ", "Account 1234567890 ", "http://x.io/a ",
       "00:1A:2b:3C:4d:5E ",
       "Run By: ", "Run By:\n", "High Category: " >>

MaxFragments == 2

RECURSIVE Texts(_)
Texts(n) ==
    IF n = 0 THEN {""}
    ELSE LET shorter == Texts(n - 1)
         IN shorter \cup {t \o Fragments[k] : t \in shorter, k \in 1..Len(Fragments)}

Inputs == Examples \cup Texts(MaxFragments)

-----------------------------------------------------------------------------
(* redact_sensitive, one action per statement group.                       *)

Categories ==
    << "ip_addresses", "mac_addresses", "phone_numbers", "email_addresses",
       "employee_ids", "imei_numbers", "account_numbers", "urls",
       "run_by_fields", "names_truncated" >>

\* The record created with the names counter under the key names_redacted.
Init_names_redacted ==
    /\ input \in Inputs
    /\ text = input
    /\ prev = input
    /\ redaction_stats = [ip_addresses |-> 0, mac_addresses |-> 0, phone_numbers |-> 0,
                          email_addresses |-> 0, employee_ids |-> 0, imei_numbers |-> 0,
                          account_numbers |-> 0, urls |-> 0, run_by_fields |-> 0,
                          names_redacted |-> 0, total_redactions |-> 0]
    /\ pc = "format"
    /\ PoolAtRest /\ LimiterAtRest /\ HandlerAtRest /\ AuditAtRest

Init ==
    /\ input \in Inputs
    /\ text = input
    /\ prev = input
    /\ redaction_stats = [ip_addresses |-> 0, mac_addresses |-> 0, phone_numbers |-> 0,
                          email_addresses |-> 0, employee_ids |-> 0, imei_numbers |-> 0,
                          account_numbers |-> 0, urls |-> 0, run_by_fields |-> 0,
                          names_truncated |-> 0, total_redactions |-> 0]
    /\ pc = "format"
    /\ PoolAtRest /\ LimiterAtRest /\ HandlerAtRest /\ AuditAtRest

\* The step at pc writes newText and stores count under key.
Step(at, next, newText, key, count) ==
    /\ pc = at
    /\ pc' = next
    /\ prev' = text
    /\ text' = newText
    /\ redaction_stats' = [redaction_stats EXCEPT ![key] = count]
    /\ UNCHANGED <<input, poolVars, limiterVars, handlerVars, auditVars>>

\* findall, count, sub for a pattern whose replacement is a fixed token.
TokenSub(End(_, _), t, token) ==
    LET ms == findall(End, t)
    IN [out |-> sub(t, ms, [k \in 1..Len(ms) |-> token]), count |-> Len(ms)]

sub_ip(t) ==
    LET ms == findall(ip_addresses_end, t)
    IN [out |-> sub(t, ms, [k \in 1..Len(ms) |-> ip_replacer(group0(t, ms[k]))]),
        count |-> Cardinality({k \in 1..Len(ms) : ip_is_counted(group0(t, ms[k]))})]

sub_phone(t) ==
    LET ms == findall(phone_pattern_end, t)
        rs == [k \in 1..Len(ms) |-> phone_replacer(t, ms[k])]
    IN [out |-> sub(t, ms, [k \in 1..Len(ms) |-> rs[k].out]), count |-> SumCounted(rs, 1)]

\* The Run-By rule left out: the text goes on to the name scan as it is.
sub_run_by_skipped(t) == [out |-> t, count |-> 0]

sub_run_by(t) ==
    LET ms == findall(run_by_pattern_end, t)
    IN [out |-> sub(t, ms, [k \in 1..Len(ms) |->
                   Slice(t, ms[k][1], run_by_group1_end(t, ms[k][1])) \o RUN_BY_TOKEN]),
        count |-> Len(ms)]

sub_names(t) ==
    LET ms == findall(names_end, t)
        rs == [k \in 1..Len(ms) |-> name_replacer(group0(t, ms[k]), names_group1(t, ms[k]))]
    IN [out |-> sub(t, ms, [k \in 1..Len(ms) |-> rs[k].out]), count |-> SumCounted(rs, 1)]

FormatFields ==
    /\ pc = "format"
    /\ pc' = "ip"
    /\ prev' = text
    /\ text' = format_fields(text)
    /\ UNCHANGED <<input, redaction_stats, poolVars, limiterVars, handlerVars, auditVars>>

RedactIP ==
    LET r == sub_ip(text) IN Step("ip", "mac", r.out, "ip_addresses", r.count)

RedactMAC ==
    LET r == TokenSub(mac_addresses_end, text, MAC_TOKEN)
    IN Step("mac", "phone", r.out, "mac_addresses", r.count)

RedactPhone ==
    LET r == sub_phone(text) IN Step("phone", "email", r.out, "phone_numbers", r.count)

RedactEmail ==
    LET r == TokenSub(email_addresses_end, text, EMAIL_TOKEN)
    IN Step("email", "employee", r.out, "email_addresses", r.count)

RedactEmployee ==
    LET r == TokenSub(employee_ids_end, text, EMPLOYEE_TOKEN)
    IN Step("employee", "imei", r.out, "employee_ids", r.count)

RedactIMEI ==
    LET r == TokenSub(imei_numbers_end, text, IMEI_TOKEN)
    IN Step("imei", "account", r.out, "imei_numbers", r.count)

RedactAccount ==
    LET r == TokenSub(account_numbers_end, text, ACCOUNT_TOKEN)
    IN Step("account", "url", r.out, "account_numbers", r.count)

\* The URL detector handing over to the name scan, the Run-By rule passed by.
RedactURL_skips_run_by ==
    LET r == TokenSub(urls_end, text, URL_TOKEN)
    IN Step("url", "names", r.out, "urls", r.count)

RedactURL ==
    LET r == TokenSub(urls_end, text, URL_TOKEN)
    IN Step("url", "run_by", r.out, "urls", r.count)

RedactRunBy ==
    LET r == sub_run_by(text) IN Step("run_by", "names", r.out, "run_by_fields", r.count)

\* An exception of the callback leaves redact_sensitive without a return.
RedactNames ==
    IF LET ms == findall(names_end, text)
       IN \E k \in 1..Len(ms) : name_replacer_raises(group0(text, ms[k]))
    THEN /\ pc = "names"
         /\ pc' = "error"
         /\ UNCHANGED <<input, text, prev, redaction_stats,
                        poolVars, limiterVars, handlerVars, auditVars>>
    ELSE LET r == sub_names(text) IN Step("names", "total", r.out, "names_truncated", r.count)

\* The sum taken before the name pass stored its counter.
RECURSIVE SumStats_stale(_, _)
SumStats_stale(st, K) ==
    IF K = {} THEN 0
    ELSE LET k == CHOOSE x \in K : TRUE
         IN (IF k = "names_truncated" THEN 0 ELSE st[k]) + SumStats_stale(st, K \ {k})

RECURSIVE SumStats(_, _)
SumStats(st, K) ==
    IF K = {} THEN 0
    ELSE LET k == CHOOSE x \in K : TRUE IN st[k] + SumStats(st, K \ {k})

\* sum(redaction_stats.values()) - redaction_stats['total_redactions'], and return.
Total ==
    /\ pc = "total"
    /\ pc' = "done"
    /\ redaction_stats' =
           [redaction_stats EXCEPT !["total_redactions"] =
               SumStats(redaction_stats, DOMAIN redaction_stats)
               - redaction_stats["total_redactions"]]
    /\ UNCHANGED <<input, text, prev, poolVars, limiterVars, handlerVars, auditVars>>

Next ==
    \/ FormatFields
    \/ RedactIP
    \/ RedactMAC
    \/ RedactPhone
    \/ RedactEmail
    \/ RedactEmployee
    \/ RedactIMEI
    \/ RedactAccount
    \/ RedactURL
    \/ RedactRunBy
    \/ RedactNames
    \/ Total

Spec == Init /\ [][Next]_vars

\* The eight structured substitutions (IP to URL) composed, in the code's order.
redact_structured(t) ==
    LET t1 == sub_ip(t).out
        t2 == TokenSub(mac_addresses_end, t1, MAC_TOKEN).out
        t3 == sub_phone(t2).out
        t4 == TokenSub(email_addresses_end, t3, EMAIL_TOKEN).out
        t5 == TokenSub(employee_ids_end, t4, EMPLOYEE_TOKEN).out
        t6 == TokenSub(imei_numbers_end, t5, IMEI_TOKEN).out
        t7 == TokenSub(account_numbers_end, t6, ACCOUNT_TOKEN).out
    IN TokenSub(urls_end, t7, URL_TOKEN).out

\* redact_sensitive(t)[0]: the statements above composed, as one call runs them.
redact_text(t) ==
    sub_names(sub_run_by(redact_structured(format_fields(t))).out).out

\* redact_sensitive(t)[1] for the eight structured categories: the counters a
\* call on t stores, each detector reading the text the one before it wrote.
redact_stats(t) ==
    LET r1 == sub_ip(format_fields(t))
        r2 == TokenSub(mac_addresses_end, r1.out, MAC_TOKEN)
        r3 == sub_phone(r2.out)
        r4 == TokenSub(email_addresses_end, r3.out, EMAIL_TOKEN)
        r5 == TokenSub(employee_ids_end, r4.out, EMPLOYEE_TOKEN)
        r6 == TokenSub(imei_numbers_end, r5.out, IMEI_TOKEN)
        r7 == TokenSub(account_numbers_end, r6.out, ACCOUNT_TOKEN)
        r8 == TokenSub(urls_end, r7.out, URL_TOKEN)
    IN [ip_addresses |-> r1.count, mac_addresses |-> r2.count, phone_numbers |-> r3.count,
        email_addresses |-> r4.count, employee_ids |-> r5.count, imei_numbers |-> r6.count,
        account_numbers |-> r7.count, urls |-> r8.count]

-----------------------------------------------------------------------------
(* Properties.                                                             *)

\* The name candidates of a text, each as <<full span, first word, second word>>.
Candidates(t) ==
    LET ms == findall(names_end, t)
    IN [k \in 1..Len(ms) |->
          LET full == group0(t, ms[k])
              w == SkipRun(full, 1, Upper \cup Lower)
          IN <<full, Slice(full, 1, w), Slice(full, SkipRun(full, w, Space), Len(full) + 1)>>]

\* The five rebuttal rules, as the specification words them.
Rule1(c) == str_lower(c[2]) \in business_terms \/ str_lower(c[3]) \in business_terms

Rule2(c) == str_lower(c[1]) \in compound_terms

Rule3(c) == is_technical(c[1])

ProperNoun(w) ==
    /\ Len(w) >= 2
    /\ At(w, 1) \in Upper
    /\ \A i \in 2..Len(w) : At(w, i) \in Lower

Rule4(c) == ~(ProperNoun(c[2]) /\ ProperNoun(c[3]))

Rule5(c) ==
    \E suffix \in {"ing", "tion", "ment", "ness", "ity", "ics", "ogy"} : endswith(c[3], suffix)

Protected(c) == Rule1(c) \/ Rule2(c) \/ Rule3(c) \/ Rule4(c) \/ Rule5(c)

Truncated(c) == c[2] \o " " \o At(c[3], 1) \o "."

\* C1: the name pass rewrites every candidate that no preserve rule protects
\* to "First L." and counts it once (and leaves the others as they are); the
\* three example texts come back as the specification says, with a count of 1.
C1_NameTruncation ==
    /\ pc = "total" =>
          LET cs == Candidates(prev)
          IN /\ text = sub(prev, findall(names_end, prev),
                           [k \in 1..Len(cs) |->
                              IF Protected(cs[k]) THEN cs[k][1] ELSE Truncated(cs[k])])
             /\ redaction_stats.names_truncated =
                    Cardinality({k \in 1..Len(cs) : ~Protected(cs[k])})
    /\ pc = "done" /\ input = "Engineer: John Smith worked on this" =>
          text = "Engineer: John S. worked on this" /\ redaction_stats.names_truncated = 1
    /\ pc = "done" /\ input = "Caller: Caleb Franklin" =>
          text = "Caller: Caleb F." /\ redaction_stats.names_truncated = 1
    /\ pc = "done" /\ input = "Assigned to: Kaushal Smith" =>
          text = "Assigned to: Kaushal S." /\ redaction_stats.names_truncated = 1

\* A name of two words a line break apart has been truncated and counted.
C1_Witness ==
    /\ pc = "total"
    /\ prev = "John Smith Dana\nLee "
    /\ text = "John S. Dana L. "
    /\ redaction_stats.names_truncated = 2

\* C2: for every name candidate the decision function returns one of two
\* outcomes, PRESERVE (the span as it is, not counted) or REDACT (the
\* truncated form, counted once), and it is PRESERVE exactly when one of the
\* five rebuttal rules holds.
C2_DisambiguatorDecision ==
    pc = "names" =>
        LET cs == Candidates(text)
        IN \A k \in 1..Len(cs) :
              LET r == name_replacer(cs[k][1], cs[k][2])
                  preserve == r.out = cs[k][1] /\ r.counted = 0
                  redact == r.out = Truncated(cs[k]) /\ r.counted = 1
              IN /\ preserve # redact
                 /\ preserve <=> Protected(cs[k])

\* The name scan is about to decide a candidate it redacts and one that only
\* the suffix rule protects.
C2_Witness ==
    /\ pc = "names"
    /\ \E k \in 1..Len(Candidates(text)) : ~Protected(Candidates(text)[k])
    /\ \E k \in 1..Len(Candidates(text)) :
          LET c == Candidates(text)[k]
          IN Rule5(c) /\ ~Rule1(c) /\ ~Rule2(c) /\ ~Rule3(c) /\ ~Rule4(c)

StructuredPatternsMatch(t) ==
    \/ findall(ip_addresses_end, t) # <<>>
    \/ findall(mac_addresses_end, t) # <<>>
    \/ findall(phone_pattern_end, t) # <<>>
    \/ findall(email_addresses_end, t) # <<>>
    \/ findall(employee_ids_end, t) # <<>>
    \/ findall(imei_numbers_end, t) # <<>>
    \/ findall(account_numbers_end, t) # <<>>
    \/ findall(urls_end, t) # <<>>

HasRunByLabel(t) == Contains(t, "Run By") \/ Contains(t, "Run by")

\* Every name candidate of t is protected by one of the vocabulary tables.
VocabularyProtects(t) ==
    \A k \in 1..Len(Candidates(t)) :
        LET c == Candidates(t)[k] IN Rule1(c) \/ Rule2(c) \/ Rule3(c)

C3_Precondition(t) ==
    ~StructuredPatternsMatch(t) /\ ~HasRunByLabel(t) /\ VocabularyProtects(t)

\* The text with every run of whitespace replaced by one blank.
RECURSIVE Collapse(_)
Collapse(t) ==
    IF t = "" THEN ""
    ELSE IF At(t, 1) \in Space
    THEN " " \o Collapse(Slice(t, SkipRun(t, 1, Space), Len(t) + 1))
    ELSE LET e == NonSpaceEnd(t, 1)
         IN Slice(t, 1, e) \o Collapse(Slice(t, e, Len(t) + 1))

\* Whitespace stands in front of a ServiceNow field label.
LabelAfterSpace(t) ==
    \E s \in 1..Len(t) : \E k \in 1..Len(servicenow_fields) :
        At(t, s) \in Space /\ Lit(t, s + 1, servicenow_fields[k])

\* C3 as stated: a text with no structured match, no Run By label and only
\* vocabulary-protected name candidates is returned unchanged, names count 0.
C3_Original ==
    pc = "done" /\ C3_Precondition(input) =>
        text = input /\ redaction_stats.names_truncated = 0

\* C3 as amended: such a text comes back with no character other than
\* whitespace changed and nothing counted; the only change is that whitespace
\* in front of a ServiceNow field label may have become one line break, and a
\* text with no whitespace in front of a field label is returned unchanged.
C3_UnchangedUpToFieldBreaks ==
    /\ pc = "done" /\ C3_Precondition(input) =>
          /\ redaction_stats.names_truncated = 0
          /\ redaction_stats.total_redactions = 0
          /\ Collapse(text) = Collapse(input)
          /\ ~LabelAfterSpace(input) => text = input
    /\ pc = "done" /\ input \in {"Category: Security Device Management",
                                 "Time Worked: 10 Minutes", "State: Pending Client"} =>
          text = input /\ redaction_stats.names_truncated = 0
    /\ pc = "done" /\ input = "Impact: 1 - High Responsible party: Presidio" =>
          text = "Impact: 1 - High\nResponsible party: Presidio"

\* A protected text with a field label after a blank has come back with the
\* blank turned into a line break and its candidates untouched.
C3_Witness ==
    /\ pc = "done"
    /\ input = "High Category: Gift Shop "
    /\ C3_Precondition(input)
    /\ text = "High\nCategory: Gift Shop "

\* The lines of a text (split on the line break).
RECURSIVE Lines(_)
Lines(t) ==
    LET e == LineEnd(t, 1)
    IN IF e > Len(t) THEN <<t>> ELSE <<Slice(t, 1, e)>> \o Lines(Slice(t, e + 1, Len(t) + 1))

RECURSIVE Squeeze(_)
Squeeze(t) ==
    IF Len(t) <= 1 THEN (IF t \in Space THEN "" ELSE t)
    ELSE LET h == Len(t) \div 2
         IN Squeeze(SubSeq(t, 1, h)) \o Squeeze(SubSeq(t, h + 1, Len(t)))

\* The end of the label "Run By:" or "Run by:" (blanks allowed before the
\* colon) that starts at s of a line, 0 if none starts there.
RunByLabelEnd(line, s) ==
    LET colon == SkipRun(line, s + 6, Space)
    IN IF (Lit(line, s, "Run By") \/ Lit(line, s, "Run by")) /\ At(line, colon) = ":"
       THEN colon + 1 ELSE 0

\* Where the label stands in a line with something after it on that line.
RunByLabelAt(line) ==
    {s \in 1..Len(line) : RunByLabelEnd(line, s) # 0 /\ RunByLabelEnd(line, s) <= Len(line)}

\* C4 as stated: after the Run-By rule, every line that held the label and a
\* value is the text up to the label followed by the one token [REDACTED]
\* (blanks aside), run_by_fields is the number of such lines, and the example
\* comes back as "Run By: [REDACTED]".
C4_RunByLine ==
    /\ pc = "names" =>
          LET before == Lines(prev)
              after == Lines(text)
              held == {i \in 1..Len(before) : RunByLabelAt(before[i]) # {}}
          IN /\ Len(after) = Len(before)
             /\ redaction_stats.run_by_fields = Cardinality(held)
             /\ \A i \in held :
                   Squeeze(after[i]) =
                       Squeeze(Slice(before[i], 1,
                                     RunByLabelEnd(before[i], Min(RunByLabelAt(before[i])))))
                       \o RUN_BY_TOKEN
    /\ pc = "done" /\ input = "Run By: Jeremy Murray 08-03-2025" =>
          text = "Run By: [REDACTED]" /\ redaction_stats.run_by_fields = 1

\* The octets a claim about an address speaks of.
Octet1(ip) == int(ip_part0(ip))

Octet2(ip) == int(ip_part1(ip))

PrivateRange(a, b) == a = 10 \/ (a = 172 /\ b \in 16..31) \/ (a = 192 /\ b = 168)

Occurrences(t, token) == Cardinality({s \in 1..Len(t) : Lit(t, s, token)})

\* C5: the IP pass leaves an IP-shaped match a.b.c.d as it is exactly when
\* a = 10, or a = 172 and 16 <= b <= 31, or a = 192 and b = 168, and writes
\* [REDACTED IP] for every other match; the example keeps 10.0.0.5, replaces
\* 8.8.8.8 and reports ip_addresses = 1.
C5_PrivateIPsKept ==
    /\ pc = "mac" =>
          LET ms == findall(ip_addresses_end, prev)
          IN text = sub(prev, ms,
                        [k \in 1..Len(ms) |->
                           LET ip == group0(prev, ms[k])
                           IN IF PrivateRange(Octet1(ip), Octet2(ip)) THEN ip
                              ELSE "[REDACTED IP]"])
    /\ pc = "done" /\ input = "Server at 10.0.0.5 and 8.8.8.8" =>
          text = "Server at 10.0.0.5 and [REDACTED IP]" /\ redaction_stats.ip_addresses = 1

\* Of two 172.x addresses the one inside 16..31 was kept, the other replaced.
C5_Witness ==
    /\ pc = "mac"
    /\ prev = "172.31.0.2 172.32.0.1 "
    /\ text = "172.31.0.2 [REDACTED IP] "

\* C6 as stated: after the IP pass the ip_addresses counter is the number of
\* IP-shaped matches that were replaced by [REDACTED IP].
C6_IPCountIsReplaced ==
    pc = "mac" =>
        redaction_stats.ip_addresses = Occurrences(text, IP_TOKEN) - Occurrences(prev, IP_TOKEN)

PhoneMarkers == {"#", "case", "ticket", "reference", "rma", "tac", "inc", "req"}

\* The (up to) 15 characters in front of a match, lower-cased.
Window(t, m) == str_lower(Slice(t, IF m[1] > PhoneLookback THEN m[1] - PhoneLookback ELSE 1, m[1]))

\* The phone pass kept exactly the matches of K, replaced and counted the others.
PhoneOutcome(K) ==
    LET ms == findall(phone_pattern_end, prev)
    IN /\ text = sub(prev, ms, [k \in 1..Len(ms) |->
                       IF k \in K THEN group0(prev, ms[k]) ELSE "[REDACTED PHONE]"])
       /\ redaction_stats.phone_numbers = Len(ms) - Cardinality(K)

\* The matches of the phone pattern with one of the markers in their window.
MarkedPhones(markers) ==
    LET ms == findall(phone_pattern_end, prev)
    IN {k \in 1..Len(ms) : \E mk \in markers : Contains(Window(prev, ms[k]), mk)}

\* C7 as stated: a phone-shaped match with any of the eight markers in the
\* characters in front of it is left as it is and not counted.
C7_Original ==
    pc = "email" =>
        \E K \in SUBSET (1..Len(findall(phone_pattern_end, prev))) :
            PhoneOutcome(K) /\ MarkedPhones(PhoneMarkers) \subseteq K

\* C7 as amended: a phone-shaped match with "#" in the 15 characters in
\* front of it is left as it is and not counted; the words case, ticket,
\* reference, rma, tac, inc and req do not exempt a number: the numbers in
\* "Ticket 555-123-4567" and "reference 555-123-4567" are replaced and counted.
C7_HashExemptsPhone ==
    /\ pc = "email" =>
          \E K \in SUBSET (1..Len(findall(phone_pattern_end, prev))) :
              PhoneOutcome(K) /\ MarkedPhones({"#"}) \subseteq K
    /\ pc = "done" /\ input = "Ticket 555-123-4567" =>
          text = "Ticket [REDACTED PHONE]" /\ redaction_stats.phone_numbers = 1
    /\ pc = "done" /\ input = "reference 555-123-4567" =>
          text = "reference [REDACTED PHONE]" /\ redaction_stats.phone_numbers = 1

\* A number with "#" eight characters in front of it went through the phone
\* pass untouched and uncounted.
C7_Witness ==
    /\ pc = "email"
    /\ prev = "#a@b.co 555-123-4567 "
    /\ text = prev
    /\ redaction_stats.phone_numbers = 0

\* C8: a phone-shaped match with "#" in the 15 characters in front of it comes
\* out unchanged and is not counted, and phone_numbers is the number of
\* [REDACTED PHONE] tokens the pass wrote; "Case #6-555-123-4567 was opened"
\* keeps its digits with a count of 0, "Phone: 555-123-4567" is replaced and
\* counted once.
C8_PhoneCountIsReplaced ==
    /\ pc = "email" =>
          /\ \E K \in SUBSET (1..Len(findall(phone_pattern_end, prev))) :
                PhoneOutcome(K) /\ MarkedPhones({"#"}) \subseteq K
          /\ redaction_stats.phone_numbers =
                 Occurrences(text, PHONE_TOKEN) - Occurrences(prev, PHONE_TOKEN)
    /\ pc = "done" /\ input = "Case #6-555-123-4567 was opened" =>
          text = input /\ redaction_stats.phone_numbers = 0
    /\ pc = "done" /\ input = "Phone: 555-123-4567" =>
          text = "Phone: [REDACTED PHONE]" /\ redaction_stats.phone_numbers = 1

\* The case number behind "#" came back with its digits and a count of 0.
C8_Witness ==
    /\ pc = "done"
    /\ input = "Case #6-555-123-4567 was opened"
    /\ text = input
    /\ redaction_stats.phone_numbers = 0

\* C9: total_redactions of the returned record is the sum of its ten other
\* counters, and it is written only at the end: it stays 0 until every
\* detector, the name pass included, has stored its counter.
C9_TotalIsSum ==
    /\ pc # "done" => redaction_stats.total_redactions = 0
    /\ pc = "done" =>
          redaction_stats.total_redactions =
              redaction_stats.ip_addresses + redaction_stats.mac_addresses
              + redaction_stats.phone_numbers + redaction_stats.email_addresses
              + redaction_stats.employee_ids + redaction_stats.imei_numbers
              + redaction_stats.account_numbers + redaction_stats.urls
              + redaction_stats.run_by_fields + redaction_stats.names_truncated

\* A record with a structured counter and the name counter both set was totalled.
C9_Witness ==
    /\ pc = "done"
    /\ redaction_stats.ip_addresses = 1
    /\ redaction_stats.names_truncated = 1
    /\ redaction_stats.total_redactions = 2

\* C10 as stated: a second redaction of the text a first redaction returned
\* changes nothing, as far as the eight structured substitutions go (and so a
\* match the first pass left in place is left in place again).
C10_Idempotent ==
    pc = "done" => redact_structured(text) = text

\* C11 as stated: none of the eight tokens matches the pattern of its own
\* category, and a second redaction of the text a first redaction returned
\* reports 0 for each of the eight structured categories.
C11_SecondPassCountsZero ==
    /\ findall(ip_addresses_end, IP_TOKEN) = <<>>
    /\ findall(mac_addresses_end, MAC_TOKEN) = <<>>
    /\ findall(phone_pattern_end, PHONE_TOKEN) = <<>>
    /\ findall(email_addresses_end, EMAIL_TOKEN) = <<>>
    /\ findall(employee_ids_end, EMPLOYEE_TOKEN) = <<>>
    /\ findall(imei_numbers_end, IMEI_TOKEN) = <<>>
    /\ findall(account_numbers_end, ACCOUNT_TOKEN) = <<>>
    /\ findall(urls_end, URL_TOKEN) = <<>>
    /\ pc = "done" =>
          LET second == redact_stats(text)
          IN \A k \in DOMAIN second : second[k] = 0

\* C12 as stated: the counter of each category after IP that writes a fixed
\* token is the number of that category's matches in the input, whatever the
\* earlier substitutions did; an Account number of ten digits and an IMEI of
\* fifteen digits are replaced and counted once under their own category and
\* not under phone_numbers.
C12_LaterCountsFromInput ==
    /\ pc = "done" =>
          /\ redaction_stats.mac_addresses = Len(findall(mac_addresses_end, input))
          /\ redaction_stats.email_addresses = Len(findall(email_addresses_end, input))
          /\ redaction_stats.employee_ids = Len(findall(employee_ids_end, input))
          /\ redaction_stats.imei_numbers = Len(findall(imei_numbers_end, input))
          /\ redaction_stats.account_numbers = Len(findall(account_numbers_end, input))
          /\ redaction_stats.urls = Len(findall(urls_end, input))
    /\ pc = "done" /\ input = "Account 1234567890" =>
          /\ text = "Account [REDACTED]"
          /\ redaction_stats.account_numbers = 1
          /\ redaction_stats.phone_numbers = 0
    /\ pc = "done" /\ input \in {"IMEI#123456789012345", "IMEI 123456789012345"} =>
          /\ text = "IMEI#[REDACTED]"
          /\ redaction_stats.imei_numbers = 1
          /\ redaction_stats.phone_numbers = 0

\* The tokens the structured detectors and the Run-By rule write.
WrittenTokens ==
    {IP_TOKEN, MAC_TOKEN, PHONE_TOKEN, EMAIL_TOKEN, EMPLOYEE_TOKEN, IMEI_TOKEN,
     ACCOUNT_TOKEN, URL_TOKEN, "Run By: [REDACTED]"}

\* The places of t where one of the written tokens stands, as <<start, end>>.
TokenSpans(t) ==
    UNION {{<<s, s + Len(tok)>> : s \in {x \in 1..Len(t) : Lit(t, x, tok)}} : tok \in WrittenTokens}

\* C13 as stated: the name pass changes no character of a written token: no
\* candidate it rewrites overlaps a place where a token stands.
C13_TokensNotNameCandidates ==
    pc = "names" =>
        LET ms == findall(names_end, text)
        IN \A k \in 1..Len(ms) :
              name_replacer(group0(text, ms[k]), names_group1(text, ms[k])).counted = 1 =>
                  \A span \in TokenSpans(text) : ms[k][2] <= span[1] \/ span[2] <= ms[k][1]

\* The capitalized word (\b[A-Z][a-z]+\b) of t at s: its end, 0 if none.
CapitalizedWordEnd(t, s) ==
    LET e == SkipRun(t, s + 1, Lower)
    IN IF At(t, s) \in Upper /\ e > s + 1 /\ WordBoundary(t, s) /\ WordBoundary(t, e)
       THEN e ELSE 0

\* C14: the candidates of the name pass are matches of the names pattern,
\* disjoint, in text order and leftmost (a match is passed over only when it
\* starts inside an earlier candidate); each gets one decision, whose result
\* stands in the output in the candidate's place, the text between candidates
\* as it was; and a capitalized word C that follows a candidate (A, B) is not
\* paired with B: no candidate starts between the start of A and C, and C
\* comes out unchanged, also when it is the first word of the next candidate.
C14_CandidatesDisjointOnce ==
    /\ pc = "total" =>
          LET ms == findall(names_end, prev)
              decided == [k \in 1..Len(ms) |->
                            name_replacer(group0(prev, ms[k]), names_group1(prev, ms[k]))]
          IN /\ \A k \in 1..Len(ms) : names_end(prev, ms[k][1]) = ms[k][2]
             /\ \A k \in 1..(Len(ms) - 1) : ms[k][2] <= ms[k + 1][1]
             /\ \A s \in 1..Len(prev) :
                   names_end(prev, s) # 0 =>
                       \E k \in 1..Len(ms) : ms[k][1] <= s /\ s < ms[k][2]
             /\ redaction_stats.names_truncated =
                    Cardinality({k \in 1..Len(ms) : decided[k].counted = 1})
             /\ text = sub(prev, ms, [k \in 1..Len(ms) |-> decided[k].out])
             /\ \A k \in 1..Len(ms) :
                   LET e == ms[k][2]
                       c == SkipRun(prev, e, Space)
                       cEnd == CapitalizedWordEnd(prev, c)
                   IN c > e /\ cEnd # 0 =>
                         \A m \in 1..Len(ms) :
                             /\ ms[m][1] <= ms[k][1] \/ ms[m][1] >= c
                             /\ ms[m][1] = c => Lit(decided[m].out, 1, Slice(prev, c, cEnd))
    /\ pc = "done" /\ input = "John Smith Lee" => text = "John S. Lee"
    /\ pc = "done" /\ input = "Gift Shop Lee" => text = "Gift Shop Lee"

\* Three capitalized words went through the name pass: the pair (Gift, Shop)
\* was decided (preserved) and Lee, which with Shop would have made a name,
\* was not paired.
C14_Witness ==
    /\ pc = "total"
    /\ prev = "Gift Shop Lee"
    /\ Len(findall(names_end, prev)) = 1
    /\ text = prev

\* C15 as stated: the compound-phrase rule holds for a candidate exactly when
\* its two words, lower-cased, are the two words of a table entry (so a
\* candidate of the words Gift and Shop is preserved however they are spaced),
\* and a third word plays no part: "Time Worked On" is preserved through the
\* bigram "Time Worked".
C15_CompoundRuleExact ==
    /\ pc = "names" =>
          \A k \in 1..Len(Candidates(text)) :
              LET c == Candidates(text)[k]
              IN in_compound_terms(c[1]) <=>
                     (str_lower(c[2]) \o " " \o str_lower(c[3])) \in compound_terms
    /\ pc = "done" /\ input \in {"Gift\nShop", "Gift  Shop", "Time Worked On"} =>
          text = input /\ redaction_stats.names_truncated = 0

\* Where the label "Run By" or "Run by" with its colon starts in a line,
\* whether or not a value follows it on that line.
RunByLabelStarts(line) ==
    {s \in 1..Len(line) : RunByLabelEnd(line, s) # 0}

\* C16 as stated: the Run-By rule changes only lines that hold the label, and
\* of such a line nothing before the label: the text has the same lines after
\* the rule as before, a line without the label is unchanged (the line after
\* a label that ends its line included), and a line with the label is
\* unchanged up to the label.
C16_RunByChangesOnlyItsLine ==
    pc = "names" =>
        LET before == Lines(prev)
            after == Lines(text)
        IN /\ Len(after) = Len(before)
           /\ \A i \in 1..Len(before) :
                 IF RunByLabelStarts(before[i]) = {}
                 THEN after[i] = before[i]
                 ELSE LET s == Min(RunByLabelStarts(before[i]))
                      IN Slice(after[i], 1, s + 6) = Slice(before[i], 1, s + 6)

DetectorOrder ==
    << "ip", "mac", "phone", "email", "employee", "imei", "account", "url", "run_by",
       "names" >>

\* What the detector at position i of the order writes when it reads t.
DetectorOutput(i, t) ==
    CASE i = 1 -> sub_ip(t).out
      [] i = 2 -> TokenSub(mac_addresses_end, t, MAC_TOKEN).out
      [] i = 3 -> sub_phone(t).out
      [] i = 4 -> TokenSub(email_addresses_end, t, EMAIL_TOKEN).out
      [] i = 5 -> TokenSub(employee_ids_end, t, EMPLOYEE_TOKEN).out
      [] i = 6 -> TokenSub(imei_numbers_end, t, IMEI_TOKEN).out
      [] i = 7 -> TokenSub(account_numbers_end, t, ACCOUNT_TOKEN).out
      [] i = 8 -> TokenSub(urls_end, t, URL_TOKEN).out
      [] i = 9 -> sub_run_by(t).out
      [] i = 10 -> sub_names(t).out

\* One step of a run, as the claim has it: the detector whose turn it is reads
\* the text the one before it wrote, writes its own, stores only its own
\* counter, and the turn passes to the next in the order (after the name
\* scan, to the total).
C18_Step ==
    \/ pc = "format" /\ pc' = DetectorOrder[1]
    \/ \E i \in 1..Len(DetectorOrder) :
          /\ pc = DetectorOrder[i]
          /\ pc' = IF i < Len(DetectorOrder) THEN DetectorOrder[i + 1] ELSE "total"
          /\ text' = DetectorOutput(i, text)
          /\ prev' = text
          /\ \A j \in 1..Len(Categories) :
                j # i => redaction_stats'[Categories[j]] = redaction_stats[Categories[j]]
    \/ pc = "total" /\ pc' = "done" /\ text' = text

\* C18: every step of every run is a step of that order, so the detectors run
\* as IP, MAC, phone, e-mail, employee-ID, IMEI, account number, URL, Run-By,
\* each on the text of the one before, the name scan after all of them, none
\* twice and none skipped.
C18_FixedOrder == [][C18_Step]_vars

\* The Run-By rule has read what the URL detector wrote, and the name scan is
\* about to start.
C18_Witness ==
    /\ pc = "names"
    /\ input = "Run By: http://x.io/a "
    /\ prev = "Run By: [REDACTED URL] "
    /\ text = "Run By: [REDACTED]"
    /\ redaction_stats.urls = 1
    /\ redaction_stats.run_by_fields = 1

\* C19 as stated: the returned record has the eleven fields of the claim, the
\* names counter under names_redacted.
C19_Original ==
    pc = "done" =>
        DOMAIN redaction_stats =
            {"ip_addresses", "mac_addresses", "phone_numbers", "email_addresses",
             "employee_ids", "imei_numbers", "account_numbers", "urls", "names_redacted",
             "run_by_fields", "total_redactions"}

\* C19 as amended: the record has exactly eleven fields, from its creation to
\* its return, each a natural number, and the names counter is the field
\* names_truncated.
C19_StatisticsFields ==
    /\ DOMAIN redaction_stats =
           {"ip_addresses", "mac_addresses", "phone_numbers", "email_addresses",
            "employee_ids", "imei_numbers", "account_numbers", "urls", "names_truncated",
            "run_by_fields", "total_redactions"}
    /\ \A k \in DOMAIN redaction_stats : redaction_stats[k] \in Nat

\* A returned record whose names counter was written by the name pass.
C19_Witness ==
    /\ pc = "done"
    /\ input = "Engineer: John Smith worked on this"
    /\ redaction_stats.names_truncated = 1
    /\ "names_redacted" \notin DOMAIN redaction_stats

\* C20: no run ends in an error: every IP-shaped match has octets int
\* accepts, every name candidate has the second word its callback indexes, no
\* state is the error outcome, and the empty string comes back as the empty
\* string with every counter 0.
C20_Total ==
    /\ pc # "error"
    /\ pc = "ip" =>
          LET ms == findall(ip_addresses_end, text)
          IN \A k \in 1..Len(ms) :
                LET ip == group0(text, ms[k])
                IN ~int_raises(ip_part0(ip)) /\ ~int_raises(ip_part1(ip))
    /\ pc = "names" =>
          LET ms == findall(names_end, text)
          IN \A k \in 1..Len(ms) : ~name_replacer_raises(group0(text, ms[k]))
    /\ pc = "done" /\ input = "" =>
          text = "" /\ \A k \in DOMAIN redaction_stats : redaction_stats[k] = 0

\* A run over a text with an address and a name two lines apart has returned.
C20_Witness ==
    /\ pc = "done"
    /\ input = "8.8.8.8 Dana\nLee "
    /\ text = "[REDACTED IP] Dana L. "
    /\ redaction_stats.total_redactions = 2

\* C22 as stated: the token the Run-By rule writes does not match the rule
\* again: once a first pass has produced the line "Run By: [REDACTED]", the
\* Run-By rule of a second pass on the returned text finds no match
\* (run_by_fields = 0) and leaves the text as it is.
C22_RunByTokenNotRematched ==
    pc = "done" /\ redaction_stats.run_by_fields > 0
        /\ (\E i \in 1..Len(Lines(text)) : Lines(text)[i] = "Run By: [REDACTED]") =>
        LET again == redact_structured(format_fields(text))
            second == sub_run_by(again)
        IN /\ second.out = again
           /\ second.count = 0

\* C23: every candidate the name scan hands to name_replacer has the
\* proper-noun shape in both words (an upper-case letter, then lower-case
\* letters only, at least two letters), so the proper-case test of
\* name_replacer holds for it and the final "return full_match" is not
\* reached: a candidate that the business terms, the compound terms, the
\* technical test and the business endings all let pass is rewritten to
\* "First L." and counted.
C23_CandidatesAreProperCase ==
    pc = "total" =>
        LET ms == findall(names_end, prev)
        IN \A k \in 1..Len(ms) :
              LET full_match == group0(prev, ms[k])
                  first_word == names_group1(prev, ms[k])
                  second_word == split_1(full_match)
              IN /\ ProperNoun(first_word) /\ ProperNoun(second_word)
                 /\ is_proper_case(first_word, second_word)
                 /\ (/\ ~in_business_terms(first_word, second_word)
                     /\ ~in_compound_terms(full_match)
                     /\ ~is_technical(full_match)
                     /\ ~has_business_ending(second_word))
                    => name_replacer(full_match, first_word) =
                           [out |-> first_word \o " " \o At(second_word, 1) \o ".",
                            counted |-> 1]

\* The name pass has met a candidate that none of the four other tests
\* keeps, and has rewritten it.
C23_Witness ==
    /\ pc = "total"
    /\ input = "John Smith Lee"
    /\ Len(findall(names_end, prev)) = 1
    /\ text = "John S. Lee"
    /\ redaction_stats.names_truncated = 1

\* C24 as stated: redacting a name candidate changes only its second word.
\* After the name pass the text is the text before it with, in every redacted
\* candidate, the second word replaced by its initial and a period, the first
\* word and the whitespace between the two words kept as they were, and
\* everything outside the candidates unchanged; the text has as many lines
\* as before.
C24_OnlySecondWordChanges ==
    pc = "total" =>
        LET ms == findall(names_end, prev)
            kept == [k \in 1..Len(ms) |->
                       LET full_match == group0(prev, ms[k])
                           first_word == names_group1(prev, ms[k])
                           second_word == split_1(full_match)
                           gap == Slice(full_match, Len(first_word) + 1,
                                        Len(full_match) - Len(second_word) + 1)
                       IN IF name_replacer(full_match, first_word).counted = 1
                          THEN first_word \o gap \o At(second_word, 1) \o "."
                          ELSE full_match]
        IN /\ text = sub(prev, ms, kept)
           /\ Len(Lines(text)) = Len(Lines(prev))

\* C25 as stated: a token written by one structured detector is never partly
\* consumed or split by a later structured detector. After each of the eight
\* structured substitutions every token that stood in the text before the
\* step still stands in it: no token of the eight occurs fewer times than
\* before the step.
C25_TokensStayIntact ==
    pc \in {"mac", "phone", "email", "employee", "imei", "account", "url", "run_by"} =>
        \A tok \in WrittenTokens \ {"Run By: [REDACTED]"} :
            Occurrences(text, tok) >= Occurrences(prev, tok)

-----------------------------------------------------------------------------
(* utils.ai_utils.RateLimiter.  Time is counted in hundredths of a second, *)
(* the shortest duration of the source (the sleep of 0.01 s): the window   *)
(* of 60 s is 6000, the longest single sleep of 5 s is 500.                *)

WindowLength == 6000

SleepCap == 500

SleepFloor == 1

\* TokenManager.rate_limits
rate_limits ==
    [m \in {"gpt-4", "gpt-4o-mini", "gpt-3.5-turbo", "claude-3-5-sonnet-20241022"} |->
        CASE m = "gpt-4" -> [rpm |-> 10, tpm |-> 10000]
          [] m = "gpt-4o-mini" -> [rpm |-> 500, tpm |-> 200000]
          [] m = "gpt-3.5-turbo" -> [rpm |-> 3500, tpm |-> 90000]
          [] OTHER -> [rpm |-> 50, tpm |-> 40000]]

\* model.upper().replace('-', '_')
RECURSIVE env_name(_)
env_name(model) ==
    IF Len(model) <= 1
    THEN (IF model \in Lower
          THEN At(UpperLetters, CHOOSE i \in 1..Len(LowerLetters) : At(LowerLetters, i) = model)
          ELSE IF model = "-" THEN "_" ELSE model)
    ELSE LET h == Len(model) \div 2
         IN env_name(SubSeq(model, 1, h)) \o env_name(SubSeq(model, h + 1, Len(model)))

\* int(os.getenv(key, default)): the variable's text read as a number when
\* it is set, the default otherwise.
getenv_int(key, default) ==
    IF key \in DOMAIN environ THEN int(environ[key]) ELSE default

\* RateLimiter._limits_for
limits_for(model) ==
    LET known == model \in DOMAIN rate_limits
    IN [rpm |-> getenv_int(env_name(model) \o "_RPM",
                           IF known THEN rate_limits[model].rpm ELSE 10),
        tpm |-> getenv_int(env_name(model) \o "_TPM",
                           IF known THEN rate_limits[model].tpm ELSE 8000)]

\* while window and window[0][0] < cutoff: window.popleft()
RECURSIVE popleft_old(_, _)
popleft_old(window, cutoff) ==
    IF window # <<>> /\ window[1][1] < cutoff
    THEN popleft_old(Tail(window), cutoff)
    ELSE window

\* usage(): len(window), sum(t for _, t in window)
RECURSIVE tok_sum(_)
tok_sum(window) ==
    IF window = <<>> THEN 0 ELSE window[1][2] + tok_sum(Tail(window))

\* The request count that lets one more request in, with > for >=.
over_rpm_off_by_one(req_count, rpm_limit) == req_count > rpm_limit

over_rpm(req_count, rpm_limit) == req_count >= rpm_limit

over_tpm(window, total_needed, tpm_limit) == tok_sum(window) + total_needed > tpm_limit

\* The models that are called, the environments and the request sizes.
Models == {"gpt-4", "gpt-4o-mini"}

MaxCalls == 2

MaxRequestTokens == 2

\* The settings of the environment variables <MODEL>_RPM and <MODEL>_TPM.
RpmSettings == {"1", "2"}

TpmSettings == {"2", "3"}

\* How long after the event before it a call is made.
IdleTimes == {0, 3000, 6100}

\* How much longer than asked a sleep may last.
Overshoot == {0, 1}

\* The tokens-per-minute limit of both models is set in the environment, the
\* requests-per-minute limit of gpt-4 is set or left to the table.
Environments ==
    LET tpm(t) == ("GPT_4_TPM" :> t) @@ ("GPT_4O_MINI_TPM" :> t)
    IN {tpm(t) : t \in TpmSettings}
       \cup {tpm(t) @@ ("GPT_4_RPM" :> r) : t \in TpmSettings, r \in RpmSettings}

LimiterInit ==
    /\ history = <<>>
    /\ clock = 0
    /\ environ \in Environments
    /\ consume = [pc |-> "idle", calls |-> 0]
    /\ RedactorAtRest /\ PoolAtRest /\ HandlerAtRest /\ AuditAtRest

\* consume, lines 104-116: the model's window is created if need be and
\* purged, the limits are read and the warning is printed.
ConsumeCall(model, request_tokens, response_tokens_reserved, idle) ==
    /\ consume.pc \in {"idle", "returned", "raised"}
    /\ consume.calls < MaxCalls
    /\ LET now == clock + idle
           created == IF model \in DOMAIN history THEN history ELSE history @@ (model :> <<>>)
           limits == limits_for(model)
           total_needed == request_tokens + response_tokens_reserved
       IN /\ clock' = now
          /\ history' = [created EXCEPT ![model] = popleft_old(@, now - WindowLength)]
          /\ consume' = [pc |-> "loop", calls |-> consume.calls + 1, model |-> model,
                         rpm_limit |-> limits.rpm, tpm_limit |-> limits.tpm,
                         total_needed |-> total_needed,
                         warned |-> total_needed > limits.tpm,
                         sleeps |-> 0, before |-> history]
    /\ UNCHANGED <<environ, redactVars, poolVars, handlerVars, auditVars>>

\* The request is over a budget.
ConsumeBlocked ==
    LET window == history[consume.model]
    IN \/ over_rpm(Len(window), consume.rpm_limit)
       \/ over_tpm(window, consume.total_needed, consume.tpm_limit)

\* Lines 128-134: sleep until the oldest entry leaves the window, at most
\* 5 s at a time, and purge.
ConsumeWait ==
    /\ consume.pc = "loop"
    /\ ConsumeBlocked
    /\ history[consume.model] # <<>>
    /\ LET oldest_ts == history[consume.model][1][1]
           sleep_for == Max({SleepFloor, WindowLength - (clock - oldest_ts)})
       IN \E late \in Overshoot :
             LET now == clock + Min({sleep_for, SleepCap}) + late
             IN /\ clock' = now
                /\ history' = [history EXCEPT
                                  ![consume.model] = popleft_old(@, now - WindowLength)]
    /\ consume' = [consume EXCEPT !.sleeps = @ + 1]
    /\ UNCHANGED <<environ, redactVars, poolVars, handlerVars, auditVars>>

\* Line 128 with the window empty: window[0] raises IndexError.
ConsumeRaise ==
    /\ consume.pc = "loop"
    /\ ConsumeBlocked
    /\ history[consume.model] = <<>>
    /\ consume' = [consume EXCEPT !.pc = "raised"]
    /\ UNCHANGED <<history, clock, environ, redactVars, poolVars, handlerVars, auditVars>>

\* Lines 126-127 and 136: the request fits, it is recorded and consume returns.
ConsumeReturn ==
    /\ consume.pc = "loop"
    /\ ~ConsumeBlocked
    /\ history' = [history EXCEPT
                      ![consume.model] = Append(@, <<clock, consume.total_needed>>)]
    /\ consume' = [consume EXCEPT !.pc = "returned"]
    /\ UNCHANGED <<clock, environ, redactVars, poolVars, handlerVars, auditVars>>

LimiterNext ==
    \/ \E model \in Models, request_tokens \in 1..MaxRequestTokens,
          response_tokens_reserved \in {0, 1}, idle \in IdleTimes :
          ConsumeCall(model, request_tokens, response_tokens_reserved, idle)
    \/ ConsumeWait
    \/ ConsumeRaise
    \/ ConsumeReturn

LimiterSpec == LimiterInit /\ [][LimiterNext]_vars

\* C26: whenever consume returns, the entries recorded for its model, the
\* new one included, number at most the model's requests-per-minute limit
\* and their tokens sum to at most its tokens-per-minute limit, and the
\* entries of every other model are the ones that were there at the call.
C26_WindowWithinLimits ==
    consume.pc = "returned" =>
        LET window == history[consume.model]
            limits == limits_for(consume.model)
        IN /\ window # <<>>
           /\ window[Len(window)] = <<clock, consume.total_needed>>
           /\ Len(window) <= limits.rpm
           /\ tok_sum(window) <= limits.tpm
           /\ DOMAIN history = DOMAIN consume.before \cup {consume.model}
           /\ \A other \in DOMAIN history \ {consume.model} :
                 history[other] = consume.before[other]

\* consume has slept until an older entry left the window, and has returned
\* with as many entries as the requests-per-minute limit allows.
C26_Witness ==
    /\ consume.pc = "returned"
    /\ consume.sleeps > 0
    /\ Len(history[consume.model]) = limits_for(consume.model).rpm

\* C27 as stated: no call of consume raises, whatever the size of the
\* request and also when the window is empty; a request whose own tokens
\* exceed the tokens-per-minute limit is warned about and waits like another.
C27_ConsumeNeverRaises ==
    /\ consume.pc # "raised"
    /\ consume.pc = "loop" /\ consume.total_needed > limits_for(consume.model).tpm
          => consume.warned

-----------------------------------------------------------------------------
(* utils.error_handling.smart_error_handler.  An exception is its message. *)

\* Whether one of the terms is in the lower-cased message.
any_term(error_str, terms) == \E term \in terms : Contains(error_str, term)

\* SmartErrorHandler.classify_error
classify_error(error) ==
    LET error_str == str_lower(error)
    IN IF any_term(error_str, {"rate limit", "too many requests", "429"}) THEN "RATE_LIMIT"
       ELSE IF any_term(error_str, {"token", "context length", "too large"}) THEN "TOKEN_LIMIT"
       ELSE IF any_term(error_str, {"api", "400", "401", "403", "500"}) THEN "API_ERROR"
       ELSE IF any_term(error_str, {"file not found", "permission denied"}) THEN "FILE_ERROR"
       ELSE IF any_term(error_str, {"connection", "timeout", "network"}) THEN "NETWORK_ERROR"
       ELSE "VALIDATION_ERROR"

\* The recovery strategy of the error type; the context of the wrapper names
\* no model.  "None" where the type has no strategy.
suggested_action(error_type, error) ==
    CASE error_type = "RATE_LIMIT" -> "Wait 60 seconds before retrying"
      [] error_type = "TOKEN_LIMIT" ->
             "Reduce input text size or switch to a model with larger context window"
      [] error_type = "API_ERROR" ->
             (IF Contains(error, "401") THEN "Check API key configuration"
              ELSE IF Contains(error, "403") THEN "Verify API permissions and quota"
              ELSE "Check API service status and retry")
      [] error_type = "FILE_ERROR" ->
             (IF Contains(str_lower(error), "not found")
              THEN "Check file path and ensure file exists"
              ELSE "Verify file permissions and disk space")
      [] error_type = "NETWORK_ERROR" -> "Check internet connection and retry"
      [] OTHER -> "None"

\* What the wrapped function raises.
Messages ==
    { "Error code: 429 - Rate limit reached",
      "maximum context length exceeded",
      "API error 500",
      "File not found: ticket.pdf",
      "Connection timeout",
      "'RateLimiter' object has no attribute 'wait_if_needed'" }

\* The error context of each of these exceptions, but for the attempt.
error_contexts ==
    [error \in Messages |->
        LET error_type == classify_error(error)
        IN [error_type |-> error_type, message |-> error,
            suggested_action |-> suggested_action(error_type, error)]]

\* SmartErrorHandler.handle_error: the error context, and the history with
\* the context appended under the function's name.
handle_error(error, function_name, attempt) ==
    LET error_context == error_contexts[error]
                             @@ [attempt |-> attempt + 1, function_name |-> function_name]
        created == IF function_name \in DOMAIN error_history THEN error_history
                   ELSE error_history @@ (function_name :> <<>>)
    IN [error_context |-> error_context,
        error_history |-> [created EXCEPT ![function_name] = Append(@, error_context)]]

\* The error types after which the wrapper sleeps and calls again, with the
\* file errors among them.
no_retry_validation_only(error_type) == error_type = "VALIDATION_ERROR"

\* error_context.error_type in [ErrorType.VALIDATION_ERROR, ErrorType.FILE_ERROR]
no_retry(error_type) == error_type \in {"VALIDATION_ERROR", "FILE_ERROR"}

\* The loop running for one attempt more.
in_range_one_more(attempt, retry_count) == attempt < retry_count + 2

\* attempt in range(retry_count + 1)
in_range(attempt, retry_count) == attempt < retry_count + 1

RECURSIVE pow2(_)
pow2(k) == IF k = 0 THEN 1 ELSE 2 * pow2(k - 1)

\* delay * (2 ** attempt)
wait_time(delay, attempt) == delay * pow2(attempt)

\* What the wrapped function returns, and how it is wrapped.
ReturnValues == {"audit report", ""}

Delays == {1, 2}

MaxRetryCount == 2

MaxInvocations == 1

HandlerInit ==
    /\ error_history = <<>>
    /\ wrapper = [pc |-> "idle", invocations |-> 0]
    /\ RedactorAtRest /\ PoolAtRest /\ LimiterAtRest /\ AuditAtRest

\* wrapper(*args, **kwargs) is called: last_error = None, the loop starts.
WrapperCall(function_name, retry_count, delay) ==
    /\ wrapper.pc \in {"idle", "returned", "raised"}
    /\ wrapper.invocations < MaxInvocations
    /\ wrapper' = [pc |-> "try", invocations |-> wrapper.invocations + 1,
                   function_name |-> function_name, retry_count |-> retry_count,
                   delay |-> delay, attempt |-> 0, last_error |-> "None",
                   outcomes |-> <<>>, slept |-> <<>>,
                   before |-> IF function_name \in DOMAIN error_history
                              THEN Len(error_history[function_name]) ELSE 0]
    /\ UNCHANGED <<error_history, redactVars, poolVars, limiterVars, auditVars>>

\* return f(*args, **kwargs): the call returns and so does the wrapper.
CallReturns(value) ==
    /\ wrapper.pc = "try"
    /\ wrapper' = [wrapper EXCEPT !.pc = "returned", !.outcomes = Append(@, <<"returned", value>>)]
                      @@ [result |-> value]
    /\ UNCHANGED <<error_history, redactVars, poolVars, limiterVars, auditVars>>

\* The call raises: the except block, and the raise after the loop when the
\* loop is left.
CallRaises(error) ==
    /\ wrapper.pc = "try"
    /\ LET handled == handle_error(error, wrapper.function_name, wrapper.attempt)
           outcomes == Append(wrapper.outcomes, <<"raised", error>>)
           broken == no_retry(handled.error_context.error_type)
           slept == IF ~broken /\ wrapper.attempt < wrapper.retry_count
                    THEN Append(wrapper.slept, wait_time(wrapper.delay, wrapper.attempt))
                    ELSE wrapper.slept
       IN /\ error_history' = handled.error_history
          /\ IF ~broken /\ in_range(wrapper.attempt + 1, wrapper.retry_count)
             THEN wrapper' = [wrapper EXCEPT !.attempt = @ + 1, !.last_error = error,
                                             !.outcomes = outcomes, !.slept = slept]
             ELSE wrapper' = [wrapper EXCEPT !.pc = "raised", !.last_error = error,
                                             !.outcomes = outcomes, !.slept = slept]
                                @@ [exception |-> error]
    /\ UNCHANGED <<redactVars, poolVars, limiterVars, auditVars>>

HandlerNext ==
    \/ \E function_name \in {"audit_ticket"}, retry_count \in 0..MaxRetryCount, delay \in Delays :
          WrapperCall(function_name, retry_count, delay)
    \/ \E value \in ReturnValues : CallReturns(value)
    \/ \E error \in Messages : CallRaises(error)

HandlerSpec == HandlerInit /\ [][HandlerNext]_vars

\* The entries the error history holds for a function.
HistoryOf(function_name) ==
    IF function_name \in DOMAIN error_history THEN error_history[function_name] ELSE <<>>

\* C28: the wrapped function is called at most retry_count + 1 times per
\* call of the wrapper. A call that succeeds is the last one and its value is
\* what the wrapper returns; if no call succeeds the wrapper raises the
\* exception of the last call; and every failed call has added exactly one
\* entry, its own, to the error history.
C28_AtMostRetryCountPlusOneCalls ==
    wrapper.pc # "idle" =>
        LET o == wrapper.outcomes
            h == HistoryOf(wrapper.function_name)
            failed == {k \in 1..Len(o) : o[k][1] = "raised"}
        IN /\ Len(o) <= wrapper.retry_count + 1
           /\ \A k \in 1..(Len(o) - 1) : k \in failed
           /\ wrapper.pc = "try" => \A k \in 1..Len(o) : k \in failed
           /\ wrapper.pc = "returned" =>
                 /\ o # <<>> /\ o[Len(o)][1] = "returned"
                 /\ wrapper.result = o[Len(o)][2]
           /\ wrapper.pc = "raised" =>
                 /\ o # <<>> /\ Len(o) \in failed
                 /\ wrapper.exception = o[Len(o)][2]
           /\ Len(h) = wrapper.before + Cardinality(failed)
           /\ \A k \in failed :
                 /\ h[wrapper.before + k].message = o[k][2]
                 /\ h[wrapper.before + k].attempt = k

\* The third call, the last that retry_count = 2 allows, has succeeded after
\* two failures and its value has been returned.
C28_Witness ==
    /\ wrapper.pc = "returned"
    /\ wrapper.retry_count = 2
    /\ Len(wrapper.outcomes) = 3
    /\ wrapper.result = "audit report"
    /\ Len(HistoryOf(wrapper.function_name)) = 2

\* The terms classify_error looks for.
Keywords ==
    {"rate limit", "too many requests", "429", "token", "context length", "too large",
     "api", "400", "401", "403", "500", "file not found", "permission denied",
     "connection", "timeout", "network"}

\* Every exception whose message holds none of the terms is a VALIDATION_ERROR.
UnmatchedAreValidation ==
    \A error \in Messages :
        (\A term \in Keywords : ~Contains(str_lower(error), term))
            => error_contexts[error].error_type = "VALIDATION_ERROR"

\* C29: a failed call whose error is classified VALIDATION_ERROR or
\* FILE_ERROR is the last call, and the wrapper raises without a sleep for
\* it; a failed call with an error of another class is followed, as long as
\* attempts remain, by one sleep of delay * 2^attempt and another call, and
\* by no sleep when it was the last attempt.
C29_RetryOnlyRetryableErrors ==
    /\ UnmatchedAreValidation
    /\ wrapper.pc # "idle" =>
          LET o == wrapper.outcomes
              slept == wrapper.slept
          IN \A k \in 1..Len(o) :
                o[k][1] = "raised" =>
                   IF error_contexts[o[k][2]].error_type \in {"VALIDATION_ERROR", "FILE_ERROR"}
                   THEN k = Len(o) /\ wrapper.pc = "raised" /\ Len(slept) = k - 1
                   ELSE IF k - 1 < wrapper.retry_count
                   THEN /\ Len(slept) >= k
                        /\ slept[k] = wrapper.delay * 2^(k - 1)
                        /\ (Len(o) > k \/ wrapper.pc = "try")
                   ELSE k = Len(o) /\ wrapper.pc = "raised" /\ Len(slept) = k - 1

\* With two retries allowed, a rate-limit error was followed by a sleep of
\* the delay and a second call, whose file error ended the wrapper at once.
C29_Witness ==
    /\ wrapper.pc = "raised"
    /\ wrapper.retry_count = 2
    /\ wrapper.delay = 2
    /\ wrapper.outcomes = << <<"raised", "Error code: 429 - Rate limit reached">>,
                             <<"raised", "File not found: ticket.pdf">> >>
    /\ wrapper.slept = <<2>>

-----------------------------------------------------------------------------
(* openai_auditor.TicketAuditor.audit_ticket.  A call of                   *)
(* client.chat.completions.create returns the content of its first choice  *)
(* or raises an exception, which is its message.                           *)

max_retries == 3

\* "rate_limit_exceeded" in str(e) or "tokens" in str(e)
is_rate_limit(e) == Contains(e, "rate_limit_exceeded") \/ Contains(e, "tokens")

\* The except clause of the whole method.
error_during_audit(e) == "Error during audit: " \o e

\* Lines 351-405: what is done to a text of this length before the prompt is
\* made of it; None has no length.
truncation(document) ==
    IF document.kind = "None" THEN "TypeError"
    ELSE IF document.length > 25000
    THEN (IF document.important_lines > 100
          THEN (IF document.smart_length > 25000 THEN "smart, cut at 25000" ELSE "smart")
          ELSE "strategic")
    ELSE "none"

\* The texts handed in, the models the GUI offers, and what the API answers.
Documents ==
    { [kind |-> "text", length |-> 1200, important_lines |-> 30, smart_length |-> 1100],
      [kind |-> "text", length |-> 25000, important_lines |-> 400, smart_length |-> 24000],
      [kind |-> "text", length |-> 40000, important_lines |-> 101, smart_length |-> 9000],
      [kind |-> "text", length |-> 90000, important_lines |-> 900, smart_length |-> 60000],
      [kind |-> "text", length |-> 40000, important_lines |-> 100, smart_length |-> 8000],
      [kind |-> "None"] }

model_options == {"gpt-4o-mini", "gpt-4", "gpt-3.5-turbo"}

RetryDelays == {60}

Contents == {"AUDIT RESULT: 13/15"}

ApiErrors ==
    { "Error code: 429 - rate_limit_exceeded",
      "Request too large: tokens per min (TPM) limit reached",
      "Connection error.",
      "Error code: 401 - Incorrect API key provided" }

AuditInit ==
    /\ audit = [pc |-> "idle"]
    /\ RedactorAtRest /\ PoolAtRest /\ LimiterAtRest /\ HandlerAtRest

\* audit_ticket is called: the text is cut to size and the prompt is made; a
\* text that has no length ends the call in the outer except clause.
AuditTicket(document, model, retry_delay) ==
    /\ audit.pc = "idle"
    /\ LET cut == truncation(document)
           frame == [model |-> model, retry_delay |-> retry_delay, truncation |-> cut,
                     attempt |-> 0, outcomes |-> <<>>, slept |-> <<>>]
       IN audit' = IF cut = "TypeError"
                   THEN frame @@ [pc |-> "returned",
                                  result |-> error_during_audit(
                                      "object of type 'NoneType' has no len()")]
                   ELSE frame @@ [pc |-> "create"]
    /\ UNCHANGED <<redactVars, poolVars, limiterVars, handlerVars>>

\* The call with the requested model returns: its content is returned.
CreateReturns(content) ==
    /\ audit.pc = "create"
    /\ audit' = [audit EXCEPT !.pc = "returned",
                              !.outcomes = Append(@, <<audit.model, "returned", content>>)]
                    @@ [result |-> content]
    /\ UNCHANGED <<redactVars, poolVars, limiterVars, handlerVars>>

\* The call with the requested model raises: wait and go round again, go on
\* to the fallback call, or re-raise into the outer except clause.
CreateRaises(e) ==
    /\ audit.pc = "create"
    /\ LET outcomes == Append(audit.outcomes, <<audit.model, "raised", e>>)
       IN IF is_rate_limit(e)
          THEN IF audit.attempt < max_retries - 1
               THEN audit' = [audit EXCEPT !.outcomes = outcomes, !.attempt = @ + 1,
                                           !.slept = Append(@, audit.retry_delay)]
               ELSE audit' = [audit EXCEPT !.outcomes = outcomes, !.pc = "fallback"]
          ELSE audit' = [audit EXCEPT !.outcomes = outcomes, !.pc = "returned"]
                            @@ [result |-> error_during_audit(e)]
    /\ UNCHANGED <<redactVars, poolVars, limiterVars, handlerVars>>

\* The call with gpt-3.5-turbo returns.
FallbackReturns(content) ==
    /\ audit.pc = "fallback"
    /\ audit' = [audit EXCEPT !.pc = "returned",
                              !.outcomes = Append(@, <<"gpt-3.5-turbo", "returned", content>>)]
                    @@ [result |-> content]
    /\ UNCHANGED <<redactVars, poolVars, limiterVars, handlerVars>>

\* The call with gpt-3.5-turbo raises inside the handler of the third
\* failure: the exception goes to the outer except clause.
FallbackRaises(e) ==
    /\ audit.pc = "fallback"
    /\ audit' = [audit EXCEPT !.pc = "returned",
                              !.outcomes = Append(@, <<"gpt-3.5-turbo", "raised", e>>)]
                    @@ [result |-> error_during_audit(e)]
    /\ UNCHANGED <<redactVars, poolVars, limiterVars, handlerVars>>

AuditNext ==
    \/ \E document \in Documents, model \in model_options, retry_delay \in RetryDelays :
          AuditTicket(document, model, retry_delay)
    \/ \E content \in Contents : CreateReturns(content)
    \/ \E e \in ApiErrors : CreateRaises(e)
    \/ \E content \in Contents : FallbackReturns(content)
    \/ \E e \in ApiErrors : FallbackRaises(e)

AuditSpec == AuditInit /\ [][AuditNext]_vars

\* The calls made with a model, as their places among the calls.
CallsWith(model) == {k \in 1..Len(audit.outcomes) : audit.outcomes[k][1] = model}

\* C30 as stated: audit_ticket returns a string whatever happens; the
\* requested model is called at most 3 times, a further call of it only
\* after a rate-limit or token error; gpt-3.5-turbo is called exactly once
\* after the third such failure; and an error of another kind, or a failure
\* of the fallback call, ends the call with a string that starts with
\* "Error during audit:".
C30_AuditTicketRetries ==
    audit.pc # "idle" =>
        LET o == audit.outcomes
            retried == {k \in 1..Len(o) : o[k][2] = "raised" /\ is_rate_limit(o[k][3])}
        IN /\ Cardinality(CallsWith(audit.model)) <= 3
           /\ \A k \in 1..(Len(o) - 1) : k \in retried
           /\ Len(o) > 3 => CallsWith("gpt-3.5-turbo") \ (1..3) = {4} /\ Len(o) = 4
           /\ audit.pc = "fallback" => Len(o) = 3
           /\ audit.pc = "returned" =>
                 /\ Len(audit.result) >= 0
                 /\ (o # <<>> /\ o[Len(o)][2] = "raised")
                       => audit.result = "Error during audit: " \o o[Len(o)][3]
                 /\ (o # <<>> /\ o[Len(o)][2] = "returned") => audit.result = o[Len(o)][3]

-----------------------------------------------------------------------------
(* gui.run_batch_processing: ThreadPoolExecutor(max_workers=2), each       *)
(* worker in a call of redact_sensitive on its own file's text.  A call    *)
(* is a frame of locals; the counters its replacer closures update         *)
(* (nonlocal) are cells.  A step of a worker is one statement of the       *)
(* function or one call of a replacer by re.sub.                           *)

Workers == {"worker_0", "worker_1"}

\* The counters declared at module level and shared by every call.
cell_of_module(worker) == "module"

\* nonlocal actual_phone_redactions / nonlocal name_count: the cell of the
\* enclosing call, one for each call.
cell_of(worker) == worker

\* The statements without a closure, by the place of the call: the place
\* that follows, the text and the counter the statement stores.
statement(at, t) ==
    CASE at = "format" -> [next |-> "ip", key |-> "none", r |-> [out |-> format_fields(t), count |-> 0]]
      [] at = "ip" -> [next |-> "mac", key |-> "ip_addresses", r |-> sub_ip(t)]
      [] at = "mac" -> [next |-> "phone", key |-> "mac_addresses",
                        r |-> TokenSub(mac_addresses_end, t, MAC_TOKEN)]
      [] at = "email" -> [next |-> "employee", key |-> "email_addresses",
                          r |-> TokenSub(email_addresses_end, t, EMAIL_TOKEN)]
      [] at = "employee" -> [next |-> "imei", key |-> "employee_ids",
                             r |-> TokenSub(employee_ids_end, t, EMPLOYEE_TOKEN)]
      [] at = "imei" -> [next |-> "account", key |-> "imei_numbers",
                         r |-> TokenSub(imei_numbers_end, t, IMEI_TOKEN)]
      [] at = "account" -> [next |-> "url", key |-> "account_numbers",
                            r |-> TokenSub(account_numbers_end, t, ACCOUNT_TOKEN)]
      [] at = "url" -> [next |-> "run_by", key |-> "urls",
                        r |-> TokenSub(urls_end, t, URL_TOKEN)]
      [] at = "run_by" -> [next |-> "names", key |-> "run_by_fields", r |-> sub_run_by(t)]

\* The texts of the files of a batch.
BatchTexts ==
    << "555-123-4567 John Smith ",
       "Case #6-555-123-4567 was opened",
       "5551234567 Dana Lee 555-123-4567 Kelly Jones",
       "John Smith Gift Shop 8.8.8.8",
       "Run By: Jeremy Murray" >>

MaxBatchTexts == 3

PoolInit ==
    /\ \E a, b \in 1..MaxBatchTexts :
          /\ a # b
          /\ frames = [w \in Workers |->
                          [input |-> IF w = "worker_0" THEN BatchTexts[a] ELSE BatchTexts[b],
                           text |-> IF w = "worker_0" THEN BatchTexts[a] ELSE BatchTexts[b],
                           redaction_stats |->
                               [ip_addresses |-> 0, mac_addresses |-> 0, phone_numbers |-> 0,
                                email_addresses |-> 0, employee_ids |-> 0, imei_numbers |-> 0,
                                account_numbers |-> 0, urls |-> 0, run_by_fields |-> 0,
                                names_truncated |-> 0, total_redactions |-> 0],
                           pc |-> "format", outs |-> <<>>]]
    /\ cells = [c \in {cell_of(w) : w \in Workers} |->
                   [actual_phone_redactions |-> 0, name_count |-> 0]]
    /\ RedactorAtRest /\ LimiterAtRest /\ HandlerAtRest /\ AuditAtRest

PoolFrame == UNCHANGED <<redactVars, limiterVars, handlerVars, auditVars>>

\* A statement that calls no closure.
Statement(w) ==
    /\ frames[w].pc \in {"format", "ip", "mac", "email", "employee", "imei", "account",
                         "url", "run_by"}
    /\ LET st == statement(frames[w].pc, frames[w].text)
       IN frames' = [frames EXCEPT
                        ![w].pc = st.next,
                        ![w].text = st.r.out,
                        ![w].redaction_stats =
                            IF st.key = "none" THEN @ ELSE [@ EXCEPT ![st.key] = st.r.count]]
    /\ UNCHANGED cells
    /\ PoolFrame

\* actual_phone_redactions = 0
PhoneStart(w) ==
    /\ frames[w].pc = "phone"
    /\ frames' = [frames EXCEPT ![w].pc = "phone_sub", ![w].outs = <<>>]
    /\ cells' = [cells EXCEPT ![cell_of(w)].actual_phone_redactions = 0]
    /\ PoolFrame

\* re.sub calls phone_replacer for the next match.
PhoneCallback(w) ==
    /\ frames[w].pc = "phone_sub"
    /\ LET ms == findall(phone_pattern_end, frames[w].text)
           k == Len(frames[w].outs) + 1
       IN /\ k <= Len(ms)
          /\ LET r == phone_replacer(frames[w].text, ms[k])
             IN /\ frames' = [frames EXCEPT ![w].outs = Append(@, r.out)]
                /\ cells' = [cells EXCEPT ![cell_of(w)].actual_phone_redactions = @ + r.counted]
    /\ PoolFrame

\* re.sub returns; redaction_stats['phone_numbers'] = actual_phone_redactions
PhoneEnd(w) ==
    /\ frames[w].pc = "phone_sub"
    /\ LET ms == findall(phone_pattern_end, frames[w].text)
       IN /\ Len(frames[w].outs) = Len(ms)
          /\ frames' = [frames EXCEPT
                           ![w].pc = "email",
                           ![w].text = sub(@, ms, frames[w].outs),
                           ![w].redaction_stats.phone_numbers =
                               cells[cell_of(w)].actual_phone_redactions]
    /\ UNCHANGED cells
    /\ PoolFrame

\* name_count = 0
NamesStart(w) ==
    /\ frames[w].pc = "names"
    /\ frames' = [frames EXCEPT ![w].pc = "names_sub", ![w].outs = <<>>]
    /\ cells' = [cells EXCEPT ![cell_of(w)].name_count = 0]
    /\ PoolFrame

\* re.sub calls name_replacer for the next match.
NameCallback(w) ==
    /\ frames[w].pc = "names_sub"
    /\ LET ms == findall(names_end, frames[w].text)
           k == Len(frames[w].outs) + 1
       IN /\ k <= Len(ms)
          /\ LET r == name_replacer(group0(frames[w].text, ms[k]),
                                    names_group1(frames[w].text, ms[k]))
             IN /\ frames' = [frames EXCEPT ![w].outs = Append(@, r.out)]
                /\ cells' = [cells EXCEPT ![cell_of(w)].name_count = @ + r.counted]
    /\ PoolFrame

\* re.sub returns; redaction_stats['names_truncated'] = name_count
NamesEnd(w) ==
    /\ frames[w].pc = "names_sub"
    /\ LET ms == findall(names_end, frames[w].text)
       IN /\ Len(frames[w].outs) = Len(ms)
          /\ frames' = [frames EXCEPT
                           ![w].pc = "total",
                           ![w].text = sub(@, ms, frames[w].outs),
                           ![w].redaction_stats.names_truncated =
                               cells[cell_of(w)].name_count]
    /\ UNCHANGED cells
    /\ PoolFrame

\* The total, and return text, redaction_stats.
PoolTotal(w) ==
    /\ frames[w].pc = "total"
    /\ frames' = [frames EXCEPT
                     ![w].pc = "done",
                     ![w].redaction_stats.total_redactions =
                         SumStats(frames[w].redaction_stats, DOMAIN frames[w].redaction_stats)
                         - frames[w].redaction_stats.total_redactions]
    /\ UNCHANGED cells
    /\ PoolFrame

PoolNext ==
    \E w \in Workers :
        \/ Statement(w)
        \/ PhoneStart(w)
        \/ PhoneCallback(w)
        \/ PhoneEnd(w)
        \/ NamesStart(w)
        \/ NameCallback(w)
        \/ NamesEnd(w)
        \/ PoolTotal(w)

PoolSpec == PoolInit /\ [][PoolNext]_vars

\* What a call of redact_sensitive on t returns as its statistics when it
\* runs alone.
AloneStats(t) ==
    LET structured == redact_stats(t)
        run_by == sub_run_by(redact_structured(format_fields(t)))
        names == sub_names(run_by.out)
        counts == structured @@ [run_by_fields |-> run_by.count,
                                 names_truncated |-> names.count]
    IN counts @@ [total_redactions |-> SumStats(counts, DOMAIN counts)]

\* Every worker that has returned holds the text and the statistics its
\* call returns when it runs alone, and every counter cell is the cell of
\* one worker's call, none of the module.
C21_ReturnsAsAlone ==
    /\ DOMAIN cells = Workers
    /\ \A w \in Workers :
          frames[w].pc = "done" =>
             /\ frames[w].text = redact_text(frames[w].input)
             /\ frames[w].redaction_stats = AloneStats(frames[w].input)

\* A step in which a worker's frame stays as it is leaves the counters of
\* that worker's call as they are.
C21_OwnCountersOnly ==
    \A w \in Workers :
        frames'[w] = frames[w] => cells'[cell_of(w)] = cells[cell_of(w)]

\* C21: two calls of redact_sensitive that run at the same time on different
\* texts each return the text and the statistics they return when run alone,
\* under every interleaving of their steps; the phone and name counters of
\* one call are never written by a step of the other, and no call writes
\* module-level state.
C21_ConcurrentCallsIndependent ==
    []C21_ReturnsAsAlone /\ [][C21_OwnCountersOnly]_vars

\* Both workers have returned, each with phone numbers and names counted,
\* after their callbacks ran interleaved.
C21_Witness ==
    /\ \A w \in Workers :
          /\ frames[w].pc = "done"
          /\ frames[w].redaction_stats.phone_numbers > 0
          /\ frames[w].redaction_stats.names_truncated > 0
    /\ frames["worker_0"].redaction_stats.phone_numbers
           # frames["worker_1"].redaction_stats.phone_numbers

====
